---- MODULE Spec2Model ----
(***************************************************************************)
(* Model of the clumio-bot request pipeline (src/app.py together with      *)
(* src/clumio_client.py): the parameter resolution of the /inventory and   *)
(* /restore routes, the /inventory and /restore slash-command handlers,    *)
(* the validation that follows, the dispatch to the backend client and the *)
(* shape of every response.                                                *)
(*                                                                         *)
(* Representation.  A Python string supplied by a caller or by the backend *)
(* is a sequence of one-character strings (<<"s","3">> is 's3'), so that   *)
(* split(), strip(), isdigit(), int() and slicing are computed character   *)
(* by character.  None is the one-element sequence None below, which is no *)
(* string.  A message built by an f-string is the concatenation of its     *)
(* literal pieces (each kept as one element) and the interpolated values.  *)
(* A dict of request parameters (request.args, request.form, the JSON      *)
(* body) is a function over Keys that maps an absent key to None, which is *)
(* what .get(key) returns.                                                 *)
(***************************************************************************)
EXTENDS Integers, Sequences, FiniteSets, TLC

VARIABLES
    req,     \* the request being handled
    params,  \* the parameters the handler resolved from it
    resp,    \* the HTTP answer of the handler
    http,    \* the HTTP requests sent to the backend API while handling it
    slack,   \* the calls made to the chat platform while handling it
    pc,      \* where slack_interactive stands
    thread,  \* the background thread slack_interactive started
    jobs,    \* the button interactions in flight at once, each with its own
             \* request, answer, calls, handler position and thread
    client   \* the attributes of the module-level ClumioClient

vars == <<req, params, resp, http, slack, pc, thread, jobs, client>>

(***************************************************************************)
(* Bounds of the model.                                                    *)
(***************************************************************************)
\* Largest number of whitespace-separated tokens of a free text.
MaxTextLen == 2
\* Largest number of items in a backend listing.
MaxItems == 2
\* Largest number of backups the backend lists for one asset.
MaxBackups == 11
\* Largest number of button interactions in flight at once.
MaxClicks == 2

(***************************************************************************)
(* Python values.                                                          *)
(***************************************************************************)
None == <<"None">>

\* `not x` for a value that is None or a string.
Falsy(x) == x = None \/ x = <<>> \/ x = <<"#", "0">>

\* `a or b`.
Or(a, b) == IF Falsy(a) THEN b ELSE a

Digits == {"0", "1", "2", "3", "4", "5", "6", "7", "8", "9"}

Whitespace == {" "}

S3 == <<"s", "3">>
EC2 == <<"e", "c", "2">>
ValidTypes == {S3, EC2}

\* str.strip()
RECURSIVE LStrip(_)
LStrip(s) ==
    IF s # <<>> /\ Head(s) \in Whitespace THEN LStrip(Tail(s)) ELSE s

RECURSIVE RStrip(_)
RStrip(s) ==
    IF s # <<>> /\ s[Len(s)] \in Whitespace
    THEN RStrip(SubSeq(s, 1, Len(s) - 1))
    ELSE s

Strip(s) == RStrip(LStrip(s))

\* str.split(): the maximal runs of non-whitespace characters, in order.
RECURSIVE SplitFrom(_, _, _)
SplitFrom(s, cur, acc) ==
    IF s = <<>>
    THEN IF cur = <<>> THEN acc ELSE Append(acc, cur)
    ELSE IF Head(s) \in Whitespace
         THEN SplitFrom(Tail(s), <<>>, IF cur = <<>> THEN acc ELSE Append(acc, cur))
         ELSE SplitFrom(Tail(s), Append(cur, Head(s)), acc)

Split(s) == SplitFrom(s, <<>>, <<>>)

\* '=' in part
HasEq(part) == \E i \in 1..Len(part) : part[i] = "="

\* part.split('=', 1): the text before the first '=' and the text after it.
FirstEq(part) == CHOOSE i \in 1..Len(part) :
                    part[i] = "=" /\ \A j \in 1..(i - 1) : part[j] # "="

SplitKey(part) == Strip(SubSeq(part, 1, FirstEq(part) - 1))

SplitValue(part) == Strip(SubSeq(part, FirstEq(part) + 1, Len(part)))

\* str.isdigit()
IsDigit(s) == s # <<>> /\ s # None /\ \A i \in 1..Len(s) : s[i] \in Digits

\* int(s) succeeds: optional surrounding whitespace, an optional sign, then
\* decimal digits that single underscores may separate.
DigitGroups(s) ==
    /\ s # <<>>
    /\ s[1] \in Digits
    /\ s[Len(s)] \in Digits
    /\ \A i \in 1..Len(s) : s[i] \in Digits \cup {"_"}
    /\ \A i \in 1..(Len(s) - 1) : ~(s[i] = "_" /\ s[i + 1] = "_")

IntParses(s) ==
    /\ s # None
    /\ LET t == Strip(s)
           u == IF t # <<>> /\ t[1] \in {"+", "-"} THEN Tail(t) ELSE t
       IN  DigitGroups(u)

(***************************************************************************)
(* Dicts: a function from keys (TLA+ strings) to values.                   *)
(***************************************************************************)
\* d.get(k, default)
DictGet(d, k, default) == IF k \in DOMAIN d THEN d[k] ELSE default

EmptyDict == [k \in {} |-> None]

(***************************************************************************)
(* The backend (the vendor API behind requests.request).  What it answers  *)
(* is not decided by this program: every call draws an outcome.            *)
(***************************************************************************)
AssetA == ("id" :> <<"a", "1">>) @@ ("bucket_id" :> <<"1", "0">>)
            @@ ("bucket_name" :> <<"b", "k">>) @@ ("region" :> <<"u", "s">>)

AssetB == ("id" :> <<"a", "2">>) @@ ("bucket_id" :> <<"2", "0">>)

\* An asset whose fields hold a double quote and a backslash.
AssetC == ("id" :> <<"a", "\"">>) @@ ("bucket_name" :> <<"\\", "n">>)

BackendItems == {AssetA, AssetB, AssetC}

\* The sequences of at most n elements of S.
SeqsUpTo(S, n) == UNION {[1..k -> S] : k \in 0..n}

Listing(items) == ("_embedded" :> ("items" :> items)) @@ ("total" :> Len(items))

NoListing == ("total" :> 0)

InventoryPayloads == {Listing(items) : items \in SeqsUpTo(BackendItems, MaxItems)}
                        \cup {NoListing}

RestorePayloads == {("task_id" :> <<"t", "1">>)}

OkOutcome(p) == [kind |-> "ok", payload |-> p]

\* A non-2xx answer, and a failure of the transport (connection error, or
\* the 30 s timeout of the call).
FailureKinds == {"http_error", "timeout"}

Outcomes(payloads) ==
    {OkOutcome(p) : p \in payloads}
        \cup {[kind |-> k, payload |-> EmptyDict] : k \in FailureKinds}

\* What a call of the client gives back: the HTTP requests it sent, and
\* either the value it returned or the exception it raised.
Returned(calls, value) ==
    [calls |-> calls, raised |-> FALSE, value |-> value, error |-> <<>>, etype |-> ""]

Raised(calls, etype, error) ==
    [calls |-> calls, raised |-> TRUE, value |-> EmptyDict, error |-> error, etype |-> etype]

\* One HTTP request to the backend API, with the answer it got.
HttpCall(method, endpoint, data, outcome) ==
    [method |-> method, endpoint |-> endpoint, data |-> data, answer |-> outcome]

\* ClumioClient._make_request
MakeRequest(method, endpoint, data, outcome) ==
    LET call == HttpCall(method, endpoint, data, outcome)
    IN  CASE outcome.kind = "ok" -> Returned(<<call>>, outcome.payload)
          [] outcome.kind = "http_error" ->
                Raised(<<call>>, "HTTPError", <<"Clumio API error: ", "status", " - ", "detail">>)
          [] OTHER ->
                Raised(<<call>>, "Timeout", <<"Read timed out. (read timeout=30)">>)

\* The s3 listing filtered by account: the filter is the URL-quoted JSON
\* {"account_native_id": {"$eq": account}}.
S3AssetsEndpoint(account_native_id) ==
    <<"/datasources/protection-groups/s3-assets?filter=", "{account_native_id: {$eq: ">>
        \o account_native_id \o <<"}}">>

Ec2Endpoint == <<"/inventory/protected-items/aws/ec2">>

\* ClumioClient.get_inventory
GetInventory(inventory_type, account_native_id, outcome) ==
    IF inventory_type = S3
    THEN IF Falsy(account_native_id)
         THEN Raised(<<>>, "ValueError",
                     <<"account_native_id is required for s3 inventory type">>)
         ELSE MakeRequest("GET", S3AssetsEndpoint(account_native_id), EmptyDict, outcome)
    ELSE IF inventory_type = EC2
         THEN MakeRequest("GET", Ec2Endpoint, EmptyDict, outcome)
         ELSE Raised(<<>>, "ValueError", <<"Invalid inventory type: ">> \o inventory_type)

\* A JSON number n of a request body is <<"#">> \o digits, which is no
\* string: int() accepts it, `not` holds of zero alone, it has no isdigit().
Number(digits) == <<"#">> \o digits

IsNumber(v) == v # <<>> /\ v[1] = "#"

\* int(s) of a string of digits: the number, which has no leading zeros.
RECURSIVE IntOfDigits(_)
IntOfDigits(s) ==
    IF Len(s) > 1 /\ Head(s) = "0" THEN IntOfDigits(Tail(s)) ELSE Number(s)

\* RestoreData with a key for every parameter, populated or not.
RestoreDataUnfiltered(bucket_name, bucket_id, object_key) ==
    ("bucket_name" :> bucket_name)
    @@ ("bucket_id" :> IF IsDigit(bucket_id) THEN IntOfDigits(bucket_id) ELSE bucket_id)
    @@ ("object_key" :> object_key)

\* ClumioClient.restore.  Only the populated parameters enter the body; a
\* digit string goes as an integer, any other string as it is.
RestoreData(bucket_name, bucket_id, object_key) ==
    (IF Falsy(bucket_name) THEN EmptyDict ELSE ("bucket_name" :> bucket_name))
    @@ (IF Falsy(bucket_id) THEN EmptyDict
        ELSE ("bucket_id" :> IF IsDigit(bucket_id) THEN IntOfDigits(bucket_id)
                             ELSE bucket_id))
    @@ (IF Falsy(object_key) THEN EmptyDict ELSE ("object_key" :> object_key))

ClientRestore(restore_type, bucket_name, bucket_id, object_key, outcome) ==
    IF ~Falsy(bucket_id) /\ IsNumber(bucket_id)
    THEN Raised(<<>>, "AttributeError", <<"'int' object has no attribute 'isdigit'">>)
    ELSE LET data == RestoreData(bucket_name, bucket_id, object_key)
         IN  IF restore_type = S3
             THEN MakeRequest("POST", <<"/restore/aws/s3">>, data, outcome)
             ELSE IF restore_type = EC2
                  THEN MakeRequest("POST", <<"/restore/aws/ec2">>, data, outcome)
                  ELSE Raised(<<>>, "ValueError",
                              <<"Invalid restore type: ">> \o restore_type)

\* ProjectItem that drops no field of the backend's item.
ProjectItemKeepingAll(item) ==
    ("id" :> DictGet(item, "id", <<>>))
        @@ ("bucket-id" :> DictGet(item, "bucket_id", <<>>))
        @@ ("bucket-name" :> DictGet(item, "bucket_name", <<>>))
        @@ item

\* get_inventory_data: the s3 listing projected to three fields, any other
\* type passed through.
ProjectItem(item) ==
    ("id" :> DictGet(item, "id", <<>>))
        @@ ("bucket-id" :> DictGet(item, "bucket_id", <<>>))
        @@ ("bucket-name" :> DictGet(item, "bucket_name", <<>>))

GetInventoryData(inventory_type, account_native_id, outcome) ==
    LET r == GetInventory(inventory_type, account_native_id, outcome)
    IN  IF r.raised \/ inventory_type # S3
        THEN r
        ELSE LET items == DictGet(DictGet(r.value, "_embedded", EmptyDict), "items", <<>>)
             IN  [r EXCEPT !.value = [i \in 1..Len(items) |-> ProjectItem(items[i])]]

(***************************************************************************)
(* format_slack_inventory_response                                         *)
(***************************************************************************)
Stars(n) == [i \in 1..n |-> "*"]

\* MaskAccount with >= for >: an account of four characters shows in full.
MaskAccountFromFour(account_str) ==
    IF Len(account_str) >= 4
    THEN Stars(Len(account_str) - 4)
            \o SubSeq(account_str, Len(account_str) - 3, Len(account_str))
    ELSE Stars(Len(account_str))

\* The account with all but its last four characters masked.
MaskAccount(account_str) ==
    IF Len(account_str) > 4
    THEN Stars(Len(account_str) - 4)
            \o SubSeq(account_str, Len(account_str) - 3, Len(account_str))
    ELSE Stars(Len(account_str))

HeaderText(account_native_id) ==
    IF Falsy(account_native_id)
    THEN <<"Clumio S3 Inventory">>
    ELSE <<"Clumio S3 Inventory for Account: ">> \o MaskAccount(account_native_id)

\* The keys of a projected item in the order get_inventory_data inserts
\* them, and key.replace('-', ' ').replace('_', ' ').title() of each.
ItemKeys == <<"id", "bucket-id", "bucket-name">>

ReadableKey(key) ==
    CASE key = "id" -> "Id"
      [] key = "bucket-id" -> "Bucket Id"
      [] key = "bucket-name" -> "Bucket Name"
      [] OTHER -> key

\* JsonEscape left out: the string as it is.
JsonEscapeNone(str) == str

\* json.dumps of a string, without its quotes: a double quote and a
\* backslash are written with a backslash before them.
RECURSIVE JsonEscape(_)
JsonEscape(str) ==
    IF str = <<>>
    THEN <<>>
    ELSE (IF Head(str) \in {"\"", "\\"} THEN <<"\\", Head(str)>> ELSE <<Head(str)>>)
            \o JsonEscape(Tail(str))

\* json.dumps of a dict of strings: the keys in insertion order.
RECURSIVE DumpPairs(_, _, _)
DumpPairs(d, keys, first) ==
    IF keys = <<>>
    THEN <<>>
    ELSE (IF first THEN <<>> ELSE <<", ">>)
            \o <<"\"", Head(keys), "\"", ": ", "\"">> \o JsonEscape(d[Head(keys)])
            \o <<"\"">>
            \o DumpPairs(d, Tail(keys), FALSE)

JsonDumps(d, keys) == <<"{">> \o DumpPairs(d, keys, TRUE) \o <<"}">>

\* json.loads of the text of a JSON object of strings: [ok, value], ok false
\* when json.loads raises.  LoadString reads a string from the place after
\* its opening quote: the characters up to the closing quote, a backslash
\* giving the character after it, and the place after the closing quote
\* (0 when the string does not end).
RECURSIVE LoadString(_, _, _)
LoadString(text, i, acc) ==
    IF i > Len(text) THEN [value |-> acc, next |-> 0]
    ELSE IF text[i] = "\"" THEN [value |-> acc, next |-> i + 1]
    ELSE IF text[i] = "\\"
         THEN IF i + 1 > Len(text)
              THEN [value |-> acc, next |-> 0]
              ELSE LoadString(text, i + 2, Append(acc, text[i + 1]))
    ELSE LoadString(text, i + 1, Append(acc, text[i]))

\* The pairs of the object from place i on, into the dict d.
RECURSIVE LoadPairs(_, _, _)
LoadPairs(text, i, d) ==
    IF i + 1 > Len(text) \/ text[i] # "\""
    THEN [ok |-> FALSE, value |-> EmptyDict]
    ELSE LET key == LoadString(text, i + 1, <<>>)
         IN  IF key.next = 0 \/ key.next + 1 > Len(text) \/ Len(key.value) # 1
                \/ text[key.next] # ": " \/ text[key.next + 1] # "\""
             THEN [ok |-> FALSE, value |-> EmptyDict]
             ELSE LET val == LoadString(text, key.next + 2, <<>>)
                      e == (key.value[1] :> val.value) @@ d
                  IN  IF val.next = 0 \/ val.next > Len(text)
                      THEN [ok |-> FALSE, value |-> EmptyDict]
                      ELSE IF text[val.next] = "}" /\ val.next = Len(text)
                           THEN [ok |-> TRUE, value |-> e]
                           ELSE IF text[val.next] = ", "
                                THEN LoadPairs(text, val.next + 1, e)
                                ELSE [ok |-> FALSE, value |-> EmptyDict]

JsonLoads(text) ==
    IF text = <<"{", "}">> THEN [ok |-> TRUE, value |-> EmptyDict]
    ELSE IF Len(text) < 2 \/ text[1] # "{" THEN [ok |-> FALSE, value |-> EmptyDict]
    ELSE LoadPairs(text, 2, EmptyDict)

RECURSIVE ItemParts(_, _, _)
ItemParts(item, keys, first) ==
    IF keys = <<>>
    THEN <<>>
    ELSE (IF first THEN <<>> ELSE <<" | ">>)
            \o <<"*", ReadableKey(Head(keys)), ":* ">> \o item[Head(keys)]
            \o ItemParts(item, Tail(keys), FALSE)

ItemText(idx, item) == <<"*", idx, ". ">> \o ItemParts(item, ItemKeys, TRUE) \o <<"*">>

Divider == [type |-> "divider"]

Section(text) == [type |-> "section", text |-> text]

Button(item) ==
    [type |-> "actions",
     elements |-> <<[type |-> "button",
                     text |-> <<"View ">> \o item["bucket-name"],
                     action_id |-> "view_bucket",
                     value |-> JsonDumps(item, ItemKeys)]>>]

\* ItemBlocks with every button made for the first item.
RECURSIVE ItemBlocksFirstButton(_, _)
ItemBlocksFirstButton(items, idx) ==
    IF idx > Len(items)
    THEN <<>>
    ELSE <<Section(ItemText(idx, items[idx])), Button(items[1])>>
            \o (IF idx < Len(items) THEN <<Divider>> ELSE <<>>)
            \o ItemBlocksFirstButton(items, idx + 1)

RECURSIVE ItemBlocks(_, _)
ItemBlocks(items, idx) ==
    IF idx > Len(items)
    THEN <<>>
    ELSE <<Section(ItemText(idx, items[idx])), Button(items[idx])>>
            \o (IF idx < Len(items) THEN <<Divider>> ELSE <<>>)
            \o ItemBlocks(items, idx + 1)

\* The code fence of the preformatted section is written <pre> .. </pre>.
FormatSlackInventoryResponse(parsed_result, is_list, account_native_id) ==
    LET head == <<[type |-> "header", text |-> HeaderText(account_native_id)], Divider>>
    IN  [response_type |-> "ephemeral",
         blocks |->
            IF is_list /\ Len(parsed_result) > 0
            THEN head \o ItemBlocks(parsed_result, 1)
                    \o <<Divider, Section(<<"*Total items:* ", Len(parsed_result)>>)>>
            ELSE head \o <<Section(<<"<pre>", parsed_result, "</pre>">>)>>]

(***************************************************************************)
(* An inbound request: the query string (request.args), the JSON body as  *)
(* request.get_json(silent=True, force=True) gives it (the empty dict when *)
(* there is none, it does not parse or it is no dict: the handlers treat   *)
(* these alike) and the form body (request.form).                          *)
(***************************************************************************)
\* request.values: the query string and the form combined, the query
\* string first.
RequestValues(r) == r.args @@ r.form

\* d.get(k)
Get(d, k) == DictGet(d, k, None)

\* What a handler did: its HTTP answer, the requests it sent to the backend
\* API, and the calls it made to the chat platform.
Handled(status, body, calls) ==
    [resp |-> [status |-> status, body |-> body], http |-> calls, slack |-> <<>>]

KeyType == <<"t", "y", "p", "e">>
KeyAccount == <<"a", "c", "c", "o", "u", "n", "t">>

(***************************************************************************)
(* The /inventory route.  p is [type, account] as resolved so far.         *)
(***************************************************************************)
\* The loop over the tokens of the text: a token key=value fills the field
\* key unless the field holds a value already.
RECURSIVE InventoryTextLoop(_, _)
InventoryTextLoop(parts, p) ==
    IF parts = <<>>
    THEN p
    ELSE LET part == Head(parts)
             q == IF HasEq(part)
                  THEN IF SplitKey(part) = KeyType /\ Falsy(p.type)
                       THEN [p EXCEPT !.type = SplitValue(part)]
                       ELSE IF SplitKey(part) = KeyAccount /\ Falsy(p.account)
                            THEN [p EXCEPT !.account = SplitValue(part)]
                            ELSE p
                  ELSE p
         IN  InventoryTextLoop(Tail(parts), q)

\* 1. the query string
InventoryFromArgs(r) ==
    [type |-> Get(r.args, "type"), account |-> Get(r.args, "account")]

\* 2. the JSON body
InventoryFromJson(r, p) ==
    IF (Falsy(p.type) \/ Falsy(p.account)) /\ r.json # EmptyDict
    THEN [type |-> IF Falsy(p.type) THEN Get(r.json, "type") ELSE p.type,
          account |-> IF Falsy(p.account) THEN Get(r.json, "account") ELSE p.account]
    ELSE p

\* 3. the form body and its text field
InventoryFromForm(r, p) ==
    IF r.form = EmptyDict
    THEN p
    ELSE LET p1 == [type |-> IF Falsy(p.type) THEN Get(r.form, "type") ELSE p.type,
                    account |-> IF Falsy(p.account) THEN Get(r.form, "account")
                                ELSE p.account]
             slack_text == Strip(DictGet(r.form, "text", <<>>))
             p2 == InventoryTextLoop(Split(slack_text), p1)
         IN  IF DictGet(r.form, "text", <<>>) = <<>>
             THEN p1
             ELSE IF Falsy(p2.type) /\ slack_text \in ValidTypes
                  THEN [p2 EXCEPT !.type = slack_text]
                  ELSE p2

\* 4. request.values and its text
InventoryFromValues(r, p) ==
    IF (Falsy(p.type) \/ Falsy(p.account)) /\ RequestValues(r) # EmptyDict
    THEN LET v == RequestValues(r)
             p1 == [type |-> IF Falsy(p.type) THEN Get(v, "type") ELSE p.type,
                    account |-> IF Falsy(p.account) THEN Get(v, "account") ELSE p.account]
             values_text == Strip(DictGet(v, "text", <<>>))
         IN  IF (Falsy(p1.type) \/ Falsy(p1.account)) /\ DictGet(v, "text", <<>>) # <<>>
             THEN IF values_text \in ValidTypes /\ Falsy(p1.type)
                  THEN [p1 EXCEPT !.type = values_text]
                  ELSE InventoryTextLoop(Split(values_text), p1)
             ELSE p1
    ELSE p

InventoryResolve(r) ==
    IF r.method = "GET"
    THEN InventoryFromArgs(r)
    ELSE InventoryFromValues(r,
            InventoryFromForm(r, InventoryFromJson(r, InventoryFromArgs(r))))

\* InventoryDefaultType without the default.
InventoryTypeAsGiven(inventory_type) == inventory_type

\* The type when no source gave one.
InventoryDefaultType(inventory_type) ==
    IF Falsy(inventory_type) THEN S3 ELSE inventory_type

InvalidTypeError(inventory_type) ==
    ("error" :> (<<"Invalid ", "type", " value: ">> \o inventory_type
                    \o <<". Accepted values: s3, ec2">>))

\* MissingAccountError as a bare message.
MissingAccountErrorBare == ("error" :> <<"Missing required parameter">>)

MissingAccountError ==
    ("error" :> <<"Missing required parameter: ", "account">>)
    @@ ("detail" :> <<"The ", "account",
                      " parameter (AWS account ID) is required for s3 inventory type">>)
    @@ ("example" :>
          <<"Use format: type=s3 account=1234567890 or ?type=s3&account=1234567890">>)

\* is_slack_request
IsSlackRequest(r) ==
    /\ r.method = "POST"
    /\ \/ ~Falsy(Get(r.form, "token"))
       \/ ~Falsy(Get(r.form, "team_id"))
       \/ ~Falsy(Get(r.form, "command"))

\* InventoryDispatch that formats every answer for the chat platform.
InventoryDispatchAlwaysFormatted(r, inventory_type, account_native_id, outcome) ==
    LET got == IF inventory_type = S3
               THEN GetInventoryData(inventory_type, account_native_id, outcome)
               ELSE GetInventory(inventory_type, account_native_id, outcome)
    IN  IF got.raised
        THEN Handled(500,
                ("error" :> (<<"Failed to retrieve inventory: ">> \o got.error))
                    @@ ("type" :> got.etype)
                    @@ ("inventory_type_requested" :> inventory_type),
                got.calls)
        ELSE Handled(200,
                FormatSlackInventoryResponse(got.value, inventory_type = S3,
                                             account_native_id),
                got.calls)

\* InventoryDispatch that formats no answer for the chat platform.
InventoryDispatchNeverFormatted(r, inventory_type, account_native_id, outcome) ==
    LET got == IF inventory_type = S3
               THEN GetInventoryData(inventory_type, account_native_id, outcome)
               ELSE GetInventory(inventory_type, account_native_id, outcome)
    IN  IF got.raised
        THEN Handled(500,
                ("error" :> (<<"Failed to retrieve inventory: ">> \o got.error))
                    @@ ("type" :> got.etype)
                    @@ ("inventory_type_requested" :> inventory_type),
                got.calls)
        ELSE Handled(200, got.value, got.calls)

\* The try block of the route: the backend call and the answer.
InventoryDispatch(r, inventory_type, account_native_id, outcome) ==
    LET got == IF inventory_type = S3
               THEN GetInventoryData(inventory_type, account_native_id, outcome)
               ELSE GetInventory(inventory_type, account_native_id, outcome)
    IN  IF got.raised
        THEN Handled(500,
                ("error" :> (<<"Failed to retrieve inventory: ">> \o got.error))
                    @@ ("type" :> got.etype)
                    @@ ("inventory_type_requested" :> inventory_type),
                got.calls)
        ELSE IF IsSlackRequest(r)
             THEN Handled(200,
                    FormatSlackInventoryResponse(got.value, inventory_type = S3,
                                                 account_native_id),
                    got.calls)
             ELSE Handled(200, got.value, got.calls)

\* InventoryValidate without the check of the type.
InventoryValidateTypeUnchecked(r, inventory_type, account_native_id, outcome) ==
    IF inventory_type = S3 /\ Falsy(account_native_id)
    THEN Handled(400, MissingAccountError, <<>>)
    ELSE InventoryDispatch(r, inventory_type, account_native_id, outcome)

\* InventoryValidate without the check of the account.
InventoryValidateAccountUnchecked(r, inventory_type, account_native_id, outcome) ==
    IF inventory_type \notin ValidTypes
    THEN Handled(400, InvalidTypeError(inventory_type), <<>>)
    ELSE InventoryDispatch(r, inventory_type, account_native_id, outcome)

InventoryValidate(r, inventory_type, account_native_id, outcome) ==
    IF inventory_type \notin ValidTypes
    THEN Handled(400, InvalidTypeError(inventory_type), <<>>)
    ELSE IF inventory_type = S3 /\ Falsy(account_native_id)
         THEN Handled(400, MissingAccountError, <<>>)
         ELSE InventoryDispatch(r, inventory_type, account_native_id, outcome)

Inventory(r, outcome) ==
    LET p == InventoryResolve(r)
    IN  InventoryValidate(r, InventoryDefaultType(p.type), p.account, outcome)

(***************************************************************************)
(* The /restore route.  p is [type, bucket_name, bucket_id, object_key] as *)
(* resolved so far.                                                        *)
(***************************************************************************)
KeyBucketName == <<"b", "u", "c", "k", "e", "t", "-", "n", "a", "m", "e">>
KeyBucketId == <<"b", "u", "c", "k", "e", "t", "-", "i", "d">>
KeyObjectKeyDash == <<"o", "b", "j", "e", "c", "t", "-", "k", "e", "y">>
KeyObjectKeyUnderscore == <<"o", "b", "j", "e", "c", "t", "_", "k", "e", "y">>

RECURSIVE RestoreTextLoop(_, _)
RestoreTextLoop(parts, p) ==
    IF parts = <<>>
    THEN p
    ELSE LET part == Head(parts)
             key == SplitKey(part)
             value == SplitValue(part)
             q == IF ~HasEq(part) THEN p
                  ELSE IF key = KeyType /\ Falsy(p.type)
                       THEN [p EXCEPT !.type = value]
                  ELSE IF key = KeyBucketName /\ Falsy(p.bucket_name)
                       THEN [p EXCEPT !.bucket_name = value]
                  ELSE IF key = KeyBucketId /\ Falsy(p.bucket_id)
                       THEN [p EXCEPT !.bucket_id = value]
                  ELSE IF key = KeyObjectKeyDash /\ Falsy(p.object_key)
                       THEN [p EXCEPT !.object_key = value]
                  ELSE IF key = KeyObjectKeyUnderscore /\ Falsy(p.object_key)
                       THEN [p EXCEPT !.object_key = value]
                  ELSE p
         IN  RestoreTextLoop(Tail(parts), q)

\* The query string.
RestoreFromArgs(r) ==
    [type |-> Get(r.args, "type"),
     bucket_name |-> Get(r.args, "bucket-name"),
     bucket_id |-> Get(r.args, "bucket-id"),
     object_key |-> Or(Get(r.args, "object_key"), Get(r.args, "object-key"))]

\* RestoreFromDict with the source read before the value already held.
RestoreFromDictOverwriting(d, p) ==
    [type |-> Or(Get(d, "type"), p.type),
     bucket_name |-> Or(Or(Get(d, "bucket-name"), Get(d, "bucket_name")), p.bucket_name),
     bucket_id |-> Or(Or(Get(d, "bucket-id"), Get(d, "bucket_id")), p.bucket_id),
     object_key |-> Or(Or(Get(d, "object_key"), Get(d, "object-key")), p.object_key)]

\* The four `x = x or d.get(..) or d.get(..)` lines that the JSON, form and
\* values steps share.
RestoreFromDict(d, p) ==
    [type |-> Or(p.type, Get(d, "type")),
     bucket_name |-> Or(Or(p.bucket_name, Get(d, "bucket-name")), Get(d, "bucket_name")),
     bucket_id |-> Or(Or(p.bucket_id, Get(d, "bucket-id")), Get(d, "bucket_id")),
     object_key |-> Or(Or(p.object_key, Get(d, "object_key")), Get(d, "object-key"))]

\* The JSON body: read only while the type is still missing.
RestoreFromJson(r, p) ==
    IF Falsy(p.type) /\ r.json # EmptyDict THEN RestoreFromDict(r.json, p) ELSE p

\* The form body and its text field.
RestoreFromForm(r, p) ==
    IF r.form = EmptyDict
    THEN p
    ELSE LET p1 == RestoreFromDict(r.form, p)
             slack_text == Strip(DictGet(r.form, "text", <<>>))
             p2 == RestoreTextLoop(Split(slack_text), p1)
         IN  IF DictGet(r.form, "text", <<>>) = <<>>
             THEN p1
             ELSE IF Falsy(p2.type) /\ slack_text \in ValidTypes
                  THEN [p2 EXCEPT !.type = slack_text]
                  ELSE p2

\* request.values and its text.
RestoreFromValues(r, p) ==
    IF RequestValues(r) = EmptyDict
    THEN p
    ELSE LET v == RequestValues(r)
             p1 == RestoreFromDict(v, p)
             values_text == Strip(DictGet(v, "text", <<>>))
         IN  IF (Falsy(p1.type) \/ Falsy(p1.bucket_name)) /\ DictGet(v, "text", <<>>) # <<>>
             THEN IF values_text \in ValidTypes /\ Falsy(p1.type)
                  THEN [p1 EXCEPT !.type = values_text]
                  ELSE RestoreTextLoop(Split(values_text), p1)
             ELSE p1

RestoreResolve(r) ==
    IF r.method = "GET"
    THEN RestoreFromArgs(r)
    ELSE RestoreFromValues(r, RestoreFromForm(r, RestoreFromJson(r, RestoreFromArgs(r))))

ParsedParams(p) ==
    ("restore_type" :> p.type) @@ ("bucket_name" :> p.bucket_name)
        @@ ("bucket_id" :> p.bucket_id) @@ ("object_key" :> p.object_key)

\* The answer to a request without a type (of its keys, content_type and
\* has_json are left out: the model has no content type).
MissingTypeError(r, p) ==
    ("error" :> <<"Missing required parameter: ", "type">>)
    @@ ("method" :> r.method)
    @@ ("form_values" :> r.form)
    @@ ("args_values" :> r.args)
    @@ ("values_dict" :> RequestValues(r))
    @@ ("parsed_params" :> ParsedParams(p))

RestoreInvalidTypeError(p) ==
    ("error" :> (<<"Invalid ", "type", " value: ">> \o p.type
                    \o <<". Accepted values: s3, ec2">>))
    @@ ("parsed_params" :> ParsedParams(p))

InvalidBucketIdError(p) ==
    ("error" :> <<"bucket-id", " must be a numeric value (string format)">>)
    @@ ("bucket_id_received" :> p.bucket_id)
    @@ ("parsed_params" :> ParsedParams(p))

\* BucketIdAccepted with `if bucket_id:` for `if bucket_id is not None:`.
BucketIdAcceptedIfTruthy(bucket_id) ==
    Falsy(bucket_id) \/ IsNumber(bucket_id) \/ IntParses(bucket_id)

\* The bucket-id check: int(bucket_id) of a bucket-id that is not None.
BucketIdAccepted(bucket_id) == bucket_id = None \/ IsNumber(bucket_id) \/ IntParses(bucket_id)

\* RestoreDispatch without its except clause: the value is answered, raised
\* or not.
RestoreDispatchUncaught(p, outcome) ==
    LET got == ClientRestore(p.type, p.bucket_name, p.bucket_id, p.object_key, outcome)
    IN  Handled(200, got.value, got.calls)

\* The try block of the route.
RestoreDispatch(p, outcome) ==
    LET got == ClientRestore(p.type, p.bucket_name, p.bucket_id, p.object_key, outcome)
    IN  IF got.raised
        THEN Handled(500,
                ("error" :> (<<"Failed to restore: ">> \o got.error))
                    @@ ("parsed_params" :> ParsedParams(p)),
                got.calls)
        ELSE Handled(200, got.value, got.calls)

\* RestoreMissingType with the default of /inventory.
RestoreMissingTypeAsS3(r, p, outcome) == RestoreDispatch([p EXCEPT !.type = S3], outcome)

\* What the route does with a request that names no type.
RestoreMissingType(r, p, outcome) == Handled(400, MissingTypeError(r, p), <<>>)

RestoreValidate(r, p, outcome) ==
    IF Falsy(p.type)
    THEN RestoreMissingType(r, p, outcome)
    ELSE IF p.type \notin ValidTypes
         THEN Handled(400, RestoreInvalidTypeError(p), <<>>)
         ELSE IF ~BucketIdAccepted(p.bucket_id)
              THEN Handled(400, InvalidBucketIdError(p), <<>>)
              ELSE RestoreDispatch(p, outcome)

Restore(r, outcome) == RestoreValidate(r, RestoreResolve(r), outcome)

(***************************************************************************)
(* The slash-command handlers.  Each acknowledges first (ack(), the empty  *)
(* 200 answer) and then speaks through respond(..) or opens a view; the    *)
(* command text is the text field of the form body the platform sends.     *)
(***************************************************************************)
Respond(kwargs) == [api |-> "respond", payload |-> kwargs]

ViewsOpen(trigger_id, callback_id) ==
    [api |-> "views.open",
     payload |-> ("trigger_id" :> trigger_id) @@ ("callback_id" :> callback_id)]

Ephemeral(text) == ("text" :> text) @@ ("response_type" :> "ephemeral")

Commanded(calls, said) ==
    [resp |-> [status |-> 200, body |-> EmptyDict], http |-> calls, slack |-> said]

\* handle_inventory_command: the loop over the tokens.
RECURSIVE InventoryCommandLoop(_, _)
InventoryCommandLoop(parts, p) ==
    IF parts = <<>>
    THEN p
    ELSE LET part == Head(parts)
             q == IF HasEq(part)
                  THEN IF SplitKey(part) = KeyType
                       THEN [p EXCEPT !.type = SplitValue(part)]
                       ELSE IF SplitKey(part) = KeyAccount
                            THEN [p EXCEPT !.account = SplitValue(part)]
                            ELSE p
                  ELSE IF Falsy(p.type) THEN [p EXCEPT !.type = Strip(part)] ELSE p
         IN  InventoryCommandLoop(Tail(parts), q)

InventoryCommandParse(text) ==
    InventoryCommandLoop(Split(Strip(text)), [type |-> None, account |-> None])

InventoryCommandDispatch(inventory_type, account_native_id, outcome) ==
    LET got == GetInventoryData(inventory_type, account_native_id, outcome)
    IN  IF got.raised
        THEN Commanded(got.calls,
                <<Respond(Ephemeral(<<"Error retrieving inventory: ">> \o got.error))>>)
        ELSE Commanded(got.calls,
                <<Respond(FormatSlackInventoryResponse(got.value, inventory_type = S3,
                                                       account_native_id))>>)

InventoryCommandValidate(inventory_type, account_native_id, outcome) ==
    IF inventory_type \notin ValidTypes
    THEN Commanded(<<>>,
            <<Respond(Ephemeral(<<"Invalid ", "type", ": ">> \o inventory_type
                                    \o <<". Accepted values: s3, ec2">>))>>)
    ELSE IF inventory_type = S3 /\ Falsy(account_native_id)
         THEN Commanded(<<>>,
                <<Respond(Ephemeral(
                    <<"Error: Missing required parameter '", "account",
                      "'. Use format: /inventory type=s3 account=1234567890">>))>>)
         ELSE InventoryCommandDispatch(inventory_type, account_native_id, outcome)

HandleInventoryCommand(r, outcome) ==
    LET p == InventoryCommandParse(DictGet(r.form, "text", <<>>))
    IN  InventoryCommandValidate(InventoryDefaultType(p.type), p.account, outcome)

\* handle_restore_command: the loop over the tokens.
RECURSIVE RestoreCommandLoop(_, _)
RestoreCommandLoop(parts, p) ==
    IF parts = <<>>
    THEN p
    ELSE LET part == Head(parts)
             key == SplitKey(part)
             value == SplitValue(part)
             q == IF ~HasEq(part) THEN p
                  ELSE IF key = KeyType THEN [p EXCEPT !.type = value]
                  ELSE IF key = KeyAccount THEN [p EXCEPT !.account = value]
                  ELSE IF key = KeyBucketName THEN [p EXCEPT !.bucket_name = value]
                  ELSE IF key = KeyBucketId THEN [p EXCEPT !.bucket_id = value]
                  ELSE IF key \in {KeyObjectKeyDash, KeyObjectKeyUnderscore}
                       THEN [p EXCEPT !.object_key = value]
                  ELSE p
         IN  RestoreCommandLoop(Tail(parts), q)

RestoreCommandParse(text) ==
    RestoreCommandLoop(Split(Strip(text)),
        [type |-> None, account |-> None, bucket_name |-> None, bucket_id |-> None,
         object_key |-> None])

\* The restore performed directly from the command.
RestoreCommandDispatch(p, outcome) ==
    LET got == ClientRestore(p.type, p.bucket_name, p.bucket_id, p.object_key, outcome)
    IN  IF got.raised
        THEN Commanded(got.calls,
                <<Respond(Ephemeral(<<"Error performing restore: ">> \o got.error))>>)
        ELSE Commanded(got.calls,
                <<Respond(("response_type" :> "ephemeral")
                    @@ ("blocks" :>
                          <<[type |-> "header", text |-> <<"Clumio Restore">>],
                            Section(<<"*Restore initiated successfully* :rocket:",
                                      "*Type:* ">> \o p.type),
                            Section(<<"<pre>", got.value, "</pre>">>)>>))>>)

\* The modal opened when the command names no bucket: views_open may fail
\* (and body["trigger_id"] raises when the body has none).
RestoreCommandModal(r, p, opened) ==
    IF "trigger_id" \in DOMAIN r.form /\ opened
    THEN Commanded(<<>>, <<ViewsOpen(r.form["trigger_id"], "restore_modal")>>)
    ELSE Commanded(<<>>,
            (IF "trigger_id" \in DOMAIN r.form
             THEN <<ViewsOpen(r.form["trigger_id"], "restore_modal")>>
             ELSE <<>>)
            \o <<Respond(Ephemeral(<<"Error opening restore modal: ", "error",
                                     "\n\nPlease check the logs for details.">>))>>)

HandleRestoreCommand(r, outcome, opened) ==
    LET p == RestoreCommandParse(DictGet(r.form, "text", <<>>))
    IN  IF ~Falsy(p.type) /\ (~Falsy(p.bucket_name) \/ ~Falsy(p.bucket_id))
        THEN RestoreCommandDispatch(p, outcome)
        ELSE RestoreCommandModal(r, p, opened)

(***************************************************************************)
(* slack_interactive: the webhook the chat platform calls when a button is *)
(* clicked.  request.form["payload"] is modelled by what json.loads makes  *)
(* of it: [parses, json], parses false when json.loads raises or gives no  *)
(* dict.  The value of a button is a text, decoded by JsonLoads.           *)
(***************************************************************************)
\* The i-th backup of an asset, and the listings of backups the backend may
\* answer with: none, one, as many as the thread displays, and the most.
Backup(i) == ("id" :> <<"k", i>>) @@ ("status" :> <<"o", "k">>)

BackupA == Backup(1)

BackupsUpTo(n) == Listing([i \in 1..n |-> Backup(i)])

BackupPayloads == {BackupsUpTo(n) : n \in {0, 1, 10, MaxBackups}}

\* ClumioClient.get_s3_asset_backups: the filter is the JSON
\* {"protection_group_s3_asset_id": {"$eq": asset}}.
BackupsEndpoint(asset_id) ==
    <<"/backups/protection-groups/s3-assets?filter=",
      "{protection_group_s3_asset_id: {$eq: ">> \o asset_id \o <<"}}">>

GetS3AssetBackups(asset_id, outcome) ==
    MakeRequest("GET", BackupsEndpoint(asset_id), EmptyDict, outcome)

HasPayload(r) == "payload" \in DOMAIN r.form

PayloadJson(r) == r.form["payload"].json

ResponseUrl(r) == Get(PayloadJson(r), "response_url")

Actions(r) == DictGet(PayloadJson(r), "actions", <<>>)

ActionId(r) == DictGet(Actions(r)[1], "action_id", "")

ActionValue(r) == DictGet(Actions(r)[1], "value", <<"{", "}">>)

TriggerId(r) == Get(PayloadJson(r), "trigger_id")

\* The three places that decode the value of a button: the view_bucket
\* branch of slack_interactive, its general branch, and handle_view_bucket.
\* The values a clicked button may carry: those the inventory rendering
\* writes (one of them for an asset without id), the empty object, and a
\* text that is no JSON.
AssetNoId == ("bucket_id" :> <<"3", "0">>) @@ ("bucket_name" :> <<"n", "i">>)

ButtonValues ==
    {JsonDumps(ProjectItem(a), ItemKeys) : a \in BackendItems \cup {AssetNoId}}
        \cup {<<"{", "}">>, <<"o", "o", "p", "s">>}

\* json.loads of a button's value; the values the model sends are decoded
\* once and looked up.
ButtonsDecoded == [text \in ButtonValues |-> JsonLoads(text)]

LoadValue(text) ==
    IF text \in ButtonValues THEN ButtonsDecoded[text] ELSE JsonLoads(text)

DecodeForModal(action_value) ==
    LET item_data == LoadValue(action_value)
    IN  [ok |-> item_data.ok,
         id |-> DictGet(item_data.value, "id", <<>>),
         bucket_id |-> DictGet(item_data.value, "bucket-id", <<>>),
         bucket_name |-> DictGet(item_data.value, "bucket-name", <<>>)]

DecodeAction(action_value) ==
    LET item_data == LoadValue(action_value)
    IN  [ok |-> item_data.ok,
         id |-> DictGet(item_data.value, "id", <<>>),
         bucket_id |-> DictGet(item_data.value, "bucket-id", <<>>),
         bucket_name |-> DictGet(item_data.value, "bucket-name", <<"Unknown">>)]

DecodeViewBucket(value) ==
    LET item_data == LoadValue(value)
    IN  [ok |-> item_data.ok,
         id |-> DictGet(item_data.value, "id", <<>>),
         bucket_id |-> DictGet(item_data.value, "bucket-id", <<>>),
         bucket_name |-> DictGet(item_data.value, "bucket-name", <<>>)]

\* requests.post(response_url, json=...): sent is false when the post raises.
PostResponseUrl(url, json, sent) ==
    [api |-> "response_url", url |-> url, payload |-> json, sent |-> sent]

Replacing(key, value) ==
    ("response_type" :> "ephemeral") @@ ("replace_original" :> TRUE) @@ (key :> value)

\* The empty 200 that acknowledges the interaction, and the 200 of the
\* outermost except clause.
Ack == [status |-> 200, body |-> EmptyDict]

ErrorAck(text) == [status |-> 200, body |-> Ephemeral(text)]

\* The background thread: not started, ready to run, past its fetch, done.
NoThread == [pc |-> "none", asset_id |-> <<>>, bucket_name |-> <<>>, calls |-> 0]

StartedThread(asset_id, bucket_name) ==
    [pc |-> "ready", asset_id |-> asset_id, bucket_name |-> bucket_name, calls |-> 0]

\* Where the handler stands after a step, and what it has done so far.
Stands(at, answer, calls, said, background) ==
    [pc |-> at, resp |-> answer, http |-> calls, slack |-> said, thread |-> background]

\* The error sent through the response_url, when there is one, and the
\* acknowledgment; a post that raises ends in the outermost except clause.
NotifyError(r, calls, text, sent) ==
    IF Falsy(ResponseUrl(r))
    THEN Stands("done", Ack, calls, <<>>, NoThread)
    ELSE Stands("done",
                IF sent THEN Ack ELSE ErrorAck(<<"Error processing request: ", "error">>),
                calls,
                <<PostResponseUrl(ResponseUrl(r), Replacing("text", text), sent)>>,
                NoThread)

\* The general branch: decode the value, then start the thread when the
\* payload has a response_url; the acknowledgment follows the start.
InteractiveDecode(r, calls, sent) ==
    LET item_data == DecodeAction(ActionValue(r))
    IN  IF ~item_data.ok
        THEN NotifyError(r, calls, <<"Error parsing button value: ", "error">>, sent)
        ELSE IF Falsy(item_data.id)
             THEN NotifyError(r, calls, <<"Error: No asset_id found in button value">>, sent)
             ELSE IF Falsy(ResponseUrl(r))
                  THEN Stands("done", Ack, calls, <<>>, NoThread)
                  ELSE Stands("started", [status |-> 0, body |-> EmptyDict], calls, <<>>,
                              StartedThread(item_data.id, item_data.bucket_name))

\* The handler from its entry to its first call of the backend, its start
\* of the thread, or its answer.
InteractiveEnter(r, outcome, sent) ==
    IF ~HasPayload(r)
    THEN Stands("done", ErrorAck(<<"Error: No payload received">>), <<>>, <<>>, NoThread)
    ELSE IF ~r.form["payload"].parses
    THEN Stands("done", ErrorAck(<<"Error processing request: ", "error">>), <<>>, <<>>,
                NoThread)
    ELSE IF Actions(r) = <<>>
    THEN Stands("done", Ack, <<>>, <<>>, NoThread)
    ELSE IF ActionId(r) = "view_bucket" /\ ~Falsy(TriggerId(r))
    THEN LET item_data == DecodeForModal(ActionValue(r))
         IN  IF ~item_data.ok
             THEN InteractiveDecode(r, <<>>, sent)
             ELSE Stands("fetched", [status |-> 0, body |-> EmptyDict],
                         GetS3AssetBackups(item_data.id, outcome).calls, <<>>, NoThread)
    ELSE InteractiveDecode(r, <<>>, sent)

\* The modal of the view_bucket branch.
BackupsModal(r, backup_data) ==
    LET item_data == DecodeForModal(ActionValue(r))
        backups == DictGet(DictGet(backup_data, "_embedded", EmptyDict), "items", <<>>)
    IN  [api |-> "views.open",
         payload |-> ("trigger_id" :> TriggerId(r))
                        @@ ("callback_id" :> "view_bucket_modal")
                        @@ ("title" :> (<<"Backups: ">> \o item_data.bucket_name))
                        @@ ("backups" :> Len(backups))
                        @@ ("private_metadata" :>
                              [item_id |-> item_data.id, bucket_id |-> item_data.bucket_id,
                               bucket_name |-> item_data.bucket_name])]

\* The view_bucket branch after its fetch: the modal and the
\* acknowledgment, or, when the fetch or the opening raised, the general
\* branch.  modal is "opened", "no_token" or "raised".
InteractiveOpenModal(r, calls, modal, sent) ==
    IF calls[1].answer.kind = "ok" /\ modal # "raised"
    THEN Stands("done", Ack, calls,
                IF modal = "opened" THEN <<BackupsModal(r, calls[1].answer.payload)>>
                ELSE <<>>,
                NoThread)
    ELSE InteractiveDecode(r, calls, sent)

\* update_slack_message: what the thread posts after its fetch.
BackupBlocks(bucket_name, asset_id, backup_data) ==
    LET backups == DictGet(DictGet(backup_data, "_embedded", EmptyDict), "items", <<>>)
        shown == SubSeq(backups, 1, IF Len(backups) > 10 THEN 10 ELSE Len(backups))
    IN  <<Section(<<"*Backup information for: ">> \o bucket_name \o <<"*">>), Divider>>
            \o (IF Len(backups) > 0
                THEN [i \in 1..Len(shown) |->
                        Section(<<"*", i, ". Backup ID:* ">> \o DictGet(shown[i], "id", <<"unknown">>))]
                     \o (IF Len(backups) > 10
                         THEN <<Section(<<"*... and ", Len(backups) - 10, " more backups*">>)>>
                         ELSE <<>>)
                     \o <<Divider, Section(<<"*Full API Response:*", backup_data>>)>>
                ELSE <<Section(<<"No backups found for bucket: ">> \o bucket_name
                                \o <<" (Asset ID: ">> \o asset_id \o <<")">>)>>)

\* The except clause of the thread left out: a failed fetch posts nothing.
ThreadMessagesSilent(url, background, answer, sent, resent) ==
    IF answer.kind # "ok"
    THEN <<>>
    ELSE <<PostResponseUrl(url,
              Replacing("blocks",
                        BackupBlocks(background.bucket_name, background.asset_id,
                                     answer.payload)),
              sent)>>

\* The posts of the thread: the backups, or the error of the except clause
\* (also when the post of the backups raised).
ThreadMessages(url, background, answer, sent, resent) ==
    IF answer.kind # "ok"
    THEN <<PostResponseUrl(url,
              Replacing("text", <<"Error retrieving backups: ", "error">>), sent)>>
    ELSE <<PostResponseUrl(url,
              Replacing("blocks",
                        BackupBlocks(background.bucket_name, background.asset_id,
                                     answer.payload)),
              sent)>>
            \o (IF sent THEN <<>>
                ELSE <<PostResponseUrl(url,
                          Replacing("text", <<"Error retrieving backups: ", "error">>),
                          resent)>>)

(***************************************************************************)
(* slack_events and slack_options hand the request to the chat SDK's       *)
(* SlackRequestHandler.  What handle() does is not decided by this         *)
(* program: it returns a response of the SDK, or it raises.                *)
(***************************************************************************)
HandleOutcomes ==
    {[raises |-> FALSE, status |-> 200], [raises |-> FALSE, status |-> 401],
     [raises |-> TRUE, status |-> 0]}

NoOptions == ("options" :> <<>>)

\* slack_options; configured is whether SLACK_BOT_TOKEN is set.
SlackOptions(configured, handled) ==
    IF configured /\ ~handled.raises
    THEN Handled(handled.status, ("handled" :> TRUE), <<>>)
    ELSE Handled(200, NoOptions, <<>>)

\* slack_events.  The route is registered only when SLACK_BOT_TOKEN is set,
\* so its test of slack_handler never fails.
SlackEvents(r, handled) ==
    IF r.method = "GET"
    THEN Handled(200, ("status" :> <<"ok">>), <<>>)
    ELSE IF Get(r.json, "type") = <<"url_verification">>
    THEN Handled(200, ("challenge" :> Get(r.json, "challenge")), <<>>)
    ELSE IF handled.raises
    THEN Handled(500, ("error" :> <<"error">>) @@ ("method" :> r.method), <<>>)
    ELSE Handled(handled.status, ("handled" :> TRUE), <<>>)

(***************************************************************************)
(* The requests the model sends.                                           *)
(***************************************************************************)
Foo == <<"f", "o", "o">>
Bar == <<"b", "a", "r">>
Baz == <<"b", "a", "z">>

AccountQuery == <<"1", "2", "3", "4", "5", "6", "7", "8", "9", "0">>
AccountJson == <<"2", "2">>
AccountForm == <<"3", "3", "3", "3", "3">>
AccountText == <<"4", "4", "4", "4">>

\* key=value
Tok(key, value) == key \o <<"=">> \o value

\* The tokens separated by single blanks.
RECURSIVE JoinWords(_)
JoinWords(tokens) ==
    IF tokens = <<>> THEN <<>>
    ELSE IF Len(tokens) = 1 THEN Head(tokens)
    ELSE Head(tokens) \o <<" ">> \o JoinWords(Tail(tokens))

Texts(tokens, n) == {JoinWords(ts) : ts \in SeqsUpTo(tokens, n)}

\* A dict that holds key unless the value drawn is None.
Opt(key, values) == {IF v = None THEN EmptyDict ELSE (key :> v) : v \in values}

Both(A, B) == {a @@ b : a \in A, b \in B}

Request(route, method, args, json, form) ==
    [route |-> route, method |-> method, args |-> args, json |-> json, form |-> form]

InventoryTokens ==
    {Tok(KeyType, S3), Tok(KeyType, EC2), Tok(KeyType, Foo), Tok(KeyType, <<>>),
     Tok(KeyAccount, AccountText), Tok(KeyAccount, AccountJson), S3, EC2, Foo}

InventoryQueryText == JoinWords(<<Tok(KeyType, Bar), Tok(KeyAccount, AccountText)>>)

InventoryFormTexts ==
    {None, S3, JoinWords(<<Tok(KeyType, EC2), Tok(KeyAccount, AccountJson)>>)}

\* GET /inventory: the query string alone.
InventoryGets ==
    {Request("inventory", "GET", args, EmptyDict, EmptyDict) :
        args \in Both(Opt("type", {None, <<>>, S3, EC2, Foo}),
                      Opt("account", {None, <<>>, AccountQuery}))}

\* POST /inventory with every source populated or not, field by field.
InventoryPosts ==
    {Request("inventory", "POST", args, json, form) :
        args \in Both(Both(Opt("type", {None, <<>>, S3, EC2, Foo}),
                           Opt("account", {None, <<>>, AccountQuery})),
                      Opt("text", {None, InventoryQueryText})),
        json \in Both(Opt("type", {None, EC2}), Opt("account", {None, AccountJson})),
        form \in Both(Both(Opt("type", {None, S3, Baz}), Opt("account", {None, AccountForm})),
                      Both(Opt("text", InventoryFormTexts), Opt("token", {None, <<"t">>})))}

\* POST /inventory as the chat platform sends a slash command: a form with
\* a text and the platform's own fields.
InventoryTextPosts ==
    {Request("inventory", "POST", EmptyDict, EmptyDict, form) :
        form \in Both(Opt("text", Texts(InventoryTokens, MaxTextLen) \cup {<<" ">> \o EC2 \o <<" ">>}),
                      Both(Opt("team_id", {None, <<>>, <<"T">>}), Opt("command", {None, <<"/">>})))}

InventoryRequests == InventoryGets \cup InventoryPosts \cup InventoryTextPosts

InventoryCommands ==
    {Request("/inventory", "POST", EmptyDict, EmptyDict, form) :
        form \in Both(Opt("text", Texts(InventoryTokens, MaxTextLen) \cup {<<" ">> \o EC2 \o <<" ">>}),
                      Opt("command", {<<"/">>}))}

BucketQuery == <<"b", "q">>
BucketJson == <<"b", "j">>
BucketForm == <<"b", "f">>
BucketText == <<"b", "t">>
BucketAlt == <<"b", "v">>

IdQuery == <<"7">>
IdJson == <<"-", "5">>
IdForm == <<"4", "2">>
IdText == <<"9">>
IdAlt == <<"a", "b", "c">>

ObjQuery == <<"k", "q">>
ObjJson == <<"k", "j">>
ObjForm == <<"k", "f">>
ObjText == <<"k", "t">>
ObjAlt == <<"k", "v">>

RestoreTokens ==
    {Tok(KeyType, S3), Tok(KeyType, Foo), Tok(KeyBucketName, BucketText),
     Tok(KeyBucketId, IdText), Tok(KeyBucketId, IdAlt), Tok(KeyObjectKeyDash, ObjText),
     Tok(KeyObjectKeyUnderscore, ObjAlt), EC2}

RestoreFullText ==
    JoinWords(<<Tok(KeyType, EC2), Tok(KeyBucketName, BucketText), Tok(KeyBucketId, IdText),
                Tok(KeyObjectKeyDash, ObjText)>>)

\* GET /restore: the query string alone.
RestoreGets ==
    {Request("restore", "GET", args, EmptyDict, EmptyDict) :
        args \in Both(Both(Opt("type", {None, <<>>, S3, EC2, Foo}),
                           Opt("bucket-id", {None, <<>>, IdQuery, IdAlt, IdJson,
                                             <<"0", "7">>, <<" ", "7">>, <<"1", "_", "0">>, <<"7", "x">>})),
                      Both(Opt("bucket-name", {None, BucketQuery}),
                           Both(Opt("object_key", {None, ObjQuery}),
                                Opt("object-key", {None, ObjAlt}))))}

\* The sources of one field of POST /restore, each populated or not: the
\* query string under the name the route reads, the query string under the
\* name only request.values reads, the JSON body and the form body.
BucketNameSources ==
    [args |-> Both(Opt("bucket-name", {None, <<>>, BucketQuery}),
                   Opt("bucket_name", {None, BucketAlt})),
     json |-> Opt("bucket-name", {None, BucketJson}),
     form |-> Opt("bucket-name", {None, BucketForm})]

BucketIdSources ==
    [args |-> Both(Opt("bucket-id", {None, <<>>, IdQuery}),
                   Opt("bucket_id", {None, IdAlt})),
     json |-> Opt("bucket_id", {None, IdJson, Number(<<"5">>)}),
     form |-> Opt("bucket-id", {None, IdForm})]

ObjectKeySources ==
    [args |-> Both(Opt("object_key", {None, <<>>, ObjQuery}),
                   Opt("object-key", {None, ObjAlt})),
     json |-> Opt("object-key", {None, ObjJson}),
     form |-> Opt("object_key", {None, ObjForm})]

FieldSources == {BucketNameSources, BucketIdSources, ObjectKeySources}

\* POST /restore: the type and one more field, every source populated or
\* not, with or without a text in the form and in the query string.
RestorePosts ==
    {Request("restore", "POST", type.args @@ field.args @@ text.args,
             type.json @@ field.json, type.form @@ field.form @@ text.form) :
        type \in [args : Opt("type", {None, <<>>, S3, Foo}),
                  json : Opt("type", {None, EC2}),
                  form : Opt("type", {None, Bar})],
        field \in UNION {[args : f.args, json : f.json, form : f.form] : f \in FieldSources},
        text \in [args : Opt("text", {None, RestoreFullText}),
                  form : Opt("text", {None, RestoreFullText})]}

\* POST /restore as the chat platform sends a slash command.
RestoreTextPosts ==
    {Request("restore", "POST", EmptyDict, EmptyDict, form) :
        form \in Both(Opt("text", Texts(RestoreTokens, MaxTextLen)),
                      Opt("command", {None, <<"/">>}))}

RestoreRequests == RestoreGets \cup RestorePosts \cup RestoreTextPosts

RestoreCommands ==
    {Request("/restore", "POST", EmptyDict, EmptyDict, form) :
        form \in Both(Opt("text", Texts(RestoreTokens, MaxTextLen)),
                      Opt("trigger_id", {None, <<"g">>}))}

ClickedActions ==
    {<<>>} \cup {<<a @@ v>> : a \in {EmptyDict, ("action_id" :> "view_bucket"),
                                    ("action_id" :> "other")},
                             v \in Opt("value", {None} \cup ButtonValues)}

Payloads ==
    {[parses |-> FALSE, json |-> EmptyDict]}
        \cup {[parses |-> TRUE, json |-> u @@ t @@ ("actions" :> a)] :
                u \in Opt("response_url", {None, <<"u">>}),
                t \in Opt("trigger_id", {None, <<"g">>}),
                a \in ClickedActions}

Interactions ==
    {Request("interactive", "POST", EmptyDict, EmptyDict, form) :
        form \in {EmptyDict} \cup {("payload" :> p) : p \in Payloads}}

EventRequests ==
    {Request("slack/events", method, EmptyDict, json, EmptyDict) :
        method \in {"GET", "POST"},
        json \in {EmptyDict,
                  ("type" :> <<"url_verification">>) @@ ("challenge" :> <<"c">>),
                  ("type" :> <<"event_callback">>)}}

OptionRequests == {Request("slack/options", "POST", EmptyDict, EmptyDict, EmptyDict)}

(***************************************************************************)
(* The state machine: the server takes one request, answers it, and is    *)
(* idle again.  The handlers answer in one step, but for slack_interactive: *)
(* pc is where that handler stands, thread is the background thread it may *)
(* start, and the steps of the two interleave.                             *)
(***************************************************************************)
Idle == Request("idle", "", EmptyDict, EmptyDict, EmptyDict)

NoAnswer == [status |-> 0, body |-> EmptyDict]

\* The button interactions that may be in flight at once, and one of them
\* before its request has arrived.
Clicks == 1..MaxClicks

NoJob ==
    [req |-> Idle, resp |-> NoAnswer, http |-> <<>>, slack |-> <<>>, pc |-> "idle",
     thread |-> NoThread]

\* clumio_client = ClumioClient(api_token=..., api_base_url=...): what
\* __init__ assigns to self.
ClumioClient ==
    [api_token |-> <<"t", "k">>,
     api_base_url |-> <<"https://api.clumio.com">>,
     headers |-> ("Authorization" :> <<"Bearer ", "t", "k">>)
                    @@ ("Content-Type" :> <<"application/json">>)
                    @@ ("Clumio-Api-Version" :> <<"1.0">>)]

Init ==
    /\ req = Idle
    /\ params = EmptyDict
    /\ resp = NoAnswer
    /\ http = <<>>
    /\ slack = <<>>
    /\ pc = "idle"
    /\ thread = NoThread
    /\ jobs = [i \in Clicks |-> NoJob]
    /\ client = ClumioClient

Answer(r, p, h) ==
    /\ req' = r
    /\ params' = p
    /\ resp' = h.resp
    /\ http' = h.http
    /\ slack' = h.slack
    /\ pc' = "done"
    /\ thread' = NoThread
    /\ UNCHANGED <<jobs, client>>

InventoryRoute ==
    /\ req = Idle
    /\ \E r \in InventoryRequests, outcome \in Outcomes(InventoryPayloads) :
          Answer(r, InventoryResolve(r), Inventory(r, outcome))

RestoreRoute ==
    /\ req = Idle
    /\ \E r \in RestoreRequests, outcome \in Outcomes(RestorePayloads) :
          Answer(r, RestoreResolve(r), Restore(r, outcome))

InventoryCommand ==
    /\ req = Idle
    /\ \E r \in InventoryCommands, outcome \in Outcomes(InventoryPayloads) :
          Answer(r, InventoryCommandParse(DictGet(r.form, "text", <<>>)),
                 HandleInventoryCommand(r, outcome))

RestoreCommand ==
    /\ req = Idle
    /\ \E r \in RestoreCommands, outcome \in Outcomes(RestorePayloads), opened \in BOOLEAN :
          Answer(r, RestoreCommandParse(DictGet(r.form, "text", <<>>)),
                 HandleRestoreCommand(r, outcome, opened))

SlackEventsRoute ==
    /\ req = Idle
    /\ \E r \in EventRequests, handled \in HandleOutcomes :
          Answer(r, EmptyDict, SlackEvents(r, handled))

SlackOptionsRoute ==
    /\ req = Idle
    /\ \E r \in OptionRequests, configured \in BOOLEAN, handled \in HandleOutcomes :
          Answer(r, EmptyDict, SlackOptions(configured, handled))

\* One step of slack_interactive takes the handler to where it stands next.
Step(h) ==
    /\ resp' = h.resp
    /\ http' = h.http
    /\ slack' = h.slack
    /\ pc' = h.pc
    /\ thread' = h.thread

\* slack_interactive up to its answer, its fetch for the modal, or its
\* start of the thread.
InteractiveReceive ==
    /\ req = Idle
    /\ \E r \in Interactions, outcome \in Outcomes(BackupPayloads), sent \in BOOLEAN :
          /\ req' = r
          /\ params' = EmptyDict
          /\ Step(InteractiveEnter(r, outcome, sent))
    /\ UNCHANGED <<jobs, client>>

\* The view_bucket branch after get_s3_asset_backups has returned or raised.
InteractiveModal ==
    /\ pc = "fetched"
    /\ \E modal \in {"opened", "no_token", "raised"}, sent \in BOOLEAN :
          Step(InteractiveOpenModal(req, http, modal, sent))
    /\ UNCHANGED <<req, params, jobs, client>>

\* return jsonify({}), 200 after thread.start().
InteractiveAck ==
    /\ pc = "started"
    /\ pc' = "done"
    /\ resp' = Ack
    /\ UNCHANGED <<req, params, http, slack, thread, jobs, client>>

\* update_slack_message: the fetch of the thread.
ThreadFetch ==
    /\ thread.pc = "ready"
    /\ \E outcome \in Outcomes(BackupPayloads) :
          http' = http \o GetS3AssetBackups(thread.asset_id, outcome).calls
    /\ thread' = [thread EXCEPT !.pc = "fetched", !.calls = 1]
    /\ UNCHANGED <<req, params, resp, slack, pc, jobs, client>>

\* update_slack_message: the post that follows the fetch.
ThreadPost ==
    /\ thread.pc = "fetched"
    /\ \E sent \in BOOLEAN, resent \in BOOLEAN :
          slack' = slack \o ThreadMessages(ResponseUrl(req), thread,
                                          http[Len(http)].answer, sent, resent)
    /\ thread' = [thread EXCEPT !.pc = "done"]
    /\ UNCHANGED <<req, params, resp, http, pc, jobs, client>>

\* The answer is out and no thread is left running; the handler's locals
\* are gone.
Finish ==
    /\ req # Idle
    /\ pc = "done"
    /\ thread.pc \in {"none", "done"}
    /\ req' = Idle
    /\ params' = EmptyDict
    /\ resp' = NoAnswer
    /\ http' = <<>>
    /\ slack' = <<>>
    /\ pc' = "idle"
    /\ thread' = NoThread
    /\ UNCHANGED <<jobs, client>>

Next ==
    \/ InventoryRoute
    \/ RestoreRoute
    \/ InventoryCommand
    \/ RestoreCommand
    \/ SlackEventsRoute
    \/ SlackOptionsRoute
    \/ InteractiveReceive
    \/ InteractiveModal
    \/ InteractiveAck
    \/ ThreadFetch
    \/ ThreadPost
    \/ Finish

Spec == Init /\ [][Next]_vars

\* The handler of a request runs on to its return, and a started thread is
\* scheduled until it ends; nothing is assumed about requests arriving.
Fairness ==
    /\ WF_vars(InteractiveModal)
    /\ WF_vars(InteractiveAck)
    /\ WF_vars(ThreadFetch)
    /\ WF_vars(ThreadPost)

LiveSpec == Spec /\ Fairness

(***************************************************************************)
(* Several button interactions in flight at once.  The server runs the     *)
(* handler of each request with locals of its own, and the thread a        *)
(* handler starts outlives it, so the steps of the handlers and of their   *)
(* threads interleave freely.  update_slack_message is a function nested   *)
(* in slack_interactive: asset_id, bucket_name and response_url are the    *)
(* locals of the invocation that started it.                               *)
(***************************************************************************)
\* A click on the button of an asset, as the chat platform sends it: the
\* callback URL of the interaction and the value of the button.
ClickUrls == {<<"u">>, <<"v">>}

ClickValues == {JsonDumps(ProjectItem(a), ItemKeys) : a \in {AssetA, AssetB}}

ConcurrentClicks ==
    {Request("interactive", "POST", EmptyDict, EmptyDict,
             ("payload" :> [parses |-> TRUE,
                            json |-> ("response_url" :> u)
                                        @@ ("actions" :> <<("action_id" :> "view_bucket")
                                                            @@ ("value" :> v)>>)])) :
        u \in ClickUrls, v \in ClickValues}

\* What the backend answers to the fetch of a thread.
ClickOutcomes == {OkOutcome(BackupsUpTo(1)), [kind |-> "http_error", payload |-> EmptyDict]}

\* The locals every thread would read were asset_id, bucket_name and
\* response_url variables of the module, which each handler overwrites.
SharedFrame(all, i) ==
    all[CHOOSE j \in DOMAIN all : all[j].thread.pc # "none"]

\* The locals the thread of interaction i reads: those of the invocation
\* of slack_interactive that defined it.
EnclosingFrame(all, i) == all[i]

\* What the handling of one request at a time is told by.
single == <<req, params, resp, http, slack, pc, thread>>

Job(r, h) ==
    [req |-> r, resp |-> h.resp, http |-> h.http, slack |-> h.slack, pc |-> h.pc,
     thread |-> h.thread]

\* slack_interactive up to thread.start(), or to its answer.
ClickReceive(i) ==
    /\ jobs[i].pc = "idle"
    /\ \E r \in ConcurrentClicks, outcome \in ClickOutcomes, sent \in BOOLEAN :
          jobs' = [jobs EXCEPT ![i] = Job(r, InteractiveEnter(r, outcome, sent))]
    /\ UNCHANGED <<single, client>>

\* return jsonify({}), 200 after thread.start().
ClickAck(i) ==
    /\ jobs[i].pc = "started"
    /\ jobs' = [jobs EXCEPT ![i].pc = "done", ![i].resp = Ack]
    /\ UNCHANGED <<single, client>>

\* update_slack_message: the fetch of the thread.
ClickThreadFetch(i) ==
    /\ jobs[i].thread.pc = "ready"
    /\ \E outcome \in ClickOutcomes :
          jobs' = [jobs EXCEPT
                     ![i].http = @ \o GetS3AssetBackups(EnclosingFrame(jobs, i).thread.asset_id,
                                                        outcome).calls,
                     ![i].thread.pc = "fetched",
                     ![i].thread.calls = 1]
    /\ UNCHANGED <<single, client>>

\* update_slack_message: the post that follows the fetch.
ClickThreadPost(i) ==
    /\ jobs[i].thread.pc = "fetched"
    /\ \E sent \in BOOLEAN, resent \in BOOLEAN :
          jobs' = [jobs EXCEPT
                     ![i].slack = @ \o ThreadMessages(ResponseUrl(EnclosingFrame(jobs, i).req),
                                                     EnclosingFrame(jobs, i).thread,
                                                     jobs[i].http[Len(jobs[i].http)].answer,
                                                     sent, resent),
                     ![i].thread.pc = "done"]
    /\ UNCHANGED <<single, client>>

\* The answer is out and the thread has ended.
ClickFinish(i) ==
    /\ jobs[i].pc = "done"
    /\ jobs[i].thread.pc \in {"none", "done"}
    /\ jobs' = [jobs EXCEPT ![i] = NoJob]
    /\ UNCHANGED <<single, client>>

Receive == \E i \in Clicks : ClickReceive(i)

Acknowledge == \E i \in Clicks : ClickAck(i)

Fetch == \E i \in Clicks : ClickThreadFetch(i)

Post == \E i \in Clicks : ClickThreadPost(i)

Forget == \E i \in Clicks : ClickFinish(i)

\* No step of a handler or of a thread assigns to an attribute of the
\* client, nor to any other variable of the module: each writes the locals
\* of its own invocation alone.
ConcNext ==
    \/ Receive
    \/ Acknowledge
    \/ Fetch
    \/ Post
    \/ Forget

ConcSpec == Init /\ [][ConcNext]_vars

(***************************************************************************)
(* What the claims speak of, stated on the request itself.                 *)
(***************************************************************************)
Routes == {"inventory", "restore"}

FieldsOf(route) ==
    IF route \in {"inventory", "/inventory"}
    THEN {"type", "account"}
    ELSE {"type", "bucket_name", "bucket_id", "object_key"}

\* The names a field goes by in a dict, and in a text.
NamesOf(field) ==
    CASE field = "bucket_name" -> <<"bucket-name", "bucket_name">>
      [] field = "bucket_id" -> <<"bucket-id", "bucket_id">>
      [] field = "object_key" -> <<"object_key", "object-key">>
      [] OTHER -> <<field>>

TextKeysOf(field) ==
    CASE field = "type" -> {KeyType}
      [] field = "account" -> {KeyAccount}
      [] field = "bucket_name" -> {KeyBucketName}
      [] field = "bucket_id" -> {KeyBucketId}
      [] OTHER -> {KeyObjectKeyDash, KeyObjectKeyUnderscore}

\* The first element of a sequence that is neither None nor empty.
FirstTruthy(values) ==
    IF \E i \in 1..Len(values) : ~Falsy(values[i])
    THEN values[CHOOSE i \in 1..Len(values) :
                    ~Falsy(values[i]) /\ \A j \in 1..(i - 1) : Falsy(values[j])]
    ELSE None

\* Two values that are the same, or that both stand for "no value".
Same(a, b) == (Falsy(a) /\ Falsy(b)) \/ a = b

\* The value a dict holds for a field, under the first of the field's names
\* that has one.
HeldBy(d, field) == FirstTruthy([i \in 1..Len(NamesOf(field)) |-> Get(d, NamesOf(field)[i])])

\* The value a free text gives a field: that of its first key=value token
\* for the field with a value; for the type also the text that is s3 or ec2
\* and nothing else.
TextTokens(text) == Split(Strip(text))

TextGives(text, field) ==
    LET parts == TextTokens(text)
        hits == {i \in 1..Len(parts) :
                    /\ HasEq(parts[i])
                    /\ SplitKey(parts[i]) \in TextKeysOf(field)
                    /\ SplitValue(parts[i]) # <<>>}
    IN  IF hits # {}
        THEN SplitValue(parts[CHOOSE i \in hits : \A j \in hits : i <= j])
        ELSE IF field = "type" /\ Strip(text) \in ValidTypes THEN Strip(text) ELSE None

\* What each of the four sources holds for a field.  The query string is
\* read under the names the route's first step looks up.
QueryHolds(r, field) ==
    IF field \in {"bucket_name", "bucket_id"}
    THEN Get(r.args, NamesOf(field)[1])
    ELSE HeldBy(r.args, field)

JsonHolds(r, field) == HeldBy(r.json, field)

FormHolds(r, field) ==
    Or(HeldBy(r.form, field), TextGives(DictGet(r.form, "text", <<>>), field))

ValuesHolds(r, field) ==
    Or(HeldBy(RequestValues(r), field),
       TextGives(DictGet(RequestValues(r), "text", <<>>), field))

\* The value of the highest-priority source that holds one.
HighestPriority(r, field) ==
    IF r.method = "GET"
    THEN QueryHolds(r, field)
    ELSE FirstTruthy(<<QueryHolds(r, field), JsonHolds(r, field), FormHolds(r, field),
                       ValuesHolds(r, field)>>)

\* All four sources hold a value for the field, no two of them the same
\* (the values view holds what only it reads: a second spelling in the
\* query string, or the text of the query string).
ValuesOnlyHolds(r, field) ==
    {Get(r.args, NamesOf(field)[i]) : i \in 1..Len(NamesOf(field))}
        \cup {TextGives(DictGet(r.args, "text", <<>>), field)}

AllFourConflict(r, field) ==
    /\ ~Falsy(QueryHolds(r, field))
    /\ ~Falsy(JsonHolds(r, field))
    /\ ~Falsy(FormHolds(r, field))
    /\ \E v \in ValuesOnlyHolds(r, field) :
          /\ ~Falsy(v)
          /\ Cardinality({QueryHolds(r, field), JsonHolds(r, field), FormHolds(r, field), v}) = 4

\* C1: on POST /inventory and POST /restore, of the sources that hold a
\* value for a field the one of highest priority gives the resolved value:
\* the query string before the JSON body, the JSON body before the form
\* body, the form body before the values view; so when all four hold
\* different values the field is the query string's.
C1_SourcePriority ==
    (req.route \in Routes /\ req.method = "POST") =>
        \A field \in FieldsOf(req.route) :
            /\ ~Falsy(QueryHolds(req, field)) => params[field] = QueryHolds(req, field)
            /\ (Falsy(QueryHolds(req, field)) /\ ~Falsy(JsonHolds(req, field))) =>
                  params[field] = JsonHolds(req, field)
            /\ (Falsy(QueryHolds(req, field)) /\ Falsy(JsonHolds(req, field))
                    /\ ~Falsy(FormHolds(req, field))) =>
                  params[field] = FormHolds(req, field)

\* The part of C1 that holds: on POST /inventory and POST /restore a field
\* the query string holds is resolved to the query string's value, whatever
\* the JSON body, the
\* form body and the values view hold for it (so also when all four hold
\* different values); and the type, which every step reads, is the value of
\* the first of query string, JSON body, form body, values view to hold one.
C1_QueryStringWins ==
    (req.route \in Routes /\ req.method = "POST") =>
        /\ \A field \in FieldsOf(req.route) :
              ~Falsy(QueryHolds(req, field)) => params[field] = QueryHolds(req, field)
        /\ Same(params["type"], HighestPriority(req, "type"))

C1_Witness ==
    /\ req.route = "restore"
    /\ req.method = "POST"
    /\ AllFourConflict(req, "bucket_name")
    /\ params["bucket_name"] = QueryHolds(req, "bucket_name")

\* C2: on POST /inventory and POST /restore every field is resolved to the
\* value of the highest-priority source holding one for that field,
\* whichever sources the other fields came from.
C2_FieldsIndependent ==
    (req.route \in Routes /\ req.method = "POST") =>
        \A field \in FieldsOf(req.route) :
            Same(params[field], HighestPriority(req, field))

\* A command text names a type: the handler reads a key=value token for the
\* type and also any token without '='.
CommandNamesType(text) ==
    \E i \in 1..Len(TextTokens(text)) :
        \/ ~HasEq(TextTokens(text)[i])
        \/ /\ SplitKey(TextTokens(text)[i]) = KeyType
           /\ SplitValue(TextTokens(text)[i]) # <<>>

NoTypeSupplied(r) ==
    IF r.route \in Routes
    THEN Falsy(HighestPriority(r, "type"))
    ELSE ~CommandNamesType(DictGet(r.form, "text", <<>>))

Mentions(message, word) == \E i \in 1..Len(message) : message[i] = word

\* Exactly one backend call was made: the s3 listing of the account.
OneS3Listing(account) ==
    /\ Len(http) = 1
    /\ http[1].method = "GET"
    /\ http[1].endpoint = S3AssetsEndpoint(account)

\* The handler said one thing to the user, an ephemeral text.
SaidEphemeral ==
    /\ Len(slack) = 1
    /\ slack[1].api = "respond"
    /\ "text" \in DOMAIN slack[1].payload
    /\ slack[1].payload["response_type"] = "ephemeral"

\* C3: an /inventory request (route or slash command) for which no source
\* supplies a type is handled as s3: without an account it gets the
\* missing-account error and no backend call, with an account the s3
\* listing of that account is requested; it is never told its type is
\* invalid.
C3_InventoryDefaultsToS3 ==
    (req.route \in {"inventory", "/inventory"} /\ NoTypeSupplied(req)) =>
        IF Falsy(params["account"])
        THEN /\ http = <<>>
             /\ IF req.route = "inventory"
                THEN resp = [status |-> 400, body |-> MissingAccountError]
                ELSE SaidEphemeral /\ Mentions(slack[1].payload["text"], "account")
        ELSE OneS3Listing(params["account"])

C3_Witness ==
    /\ req.route = "/inventory"
    /\ NoTypeSupplied(req)
    /\ OneS3Listing(params["account"])
    /\ http[1].answer.kind = "ok"

\* The type the validation sees: /inventory has replaced a missing one.
EffectiveType ==
    IF req.route \in {"inventory", "/inventory"}
    THEN InventoryDefaultType(params["type"])
    ELSE params["type"]

MissingTypeMessage == <<"Missing required parameter: ", "type">>

\* C4 as claimed: a /restore request for which no source supplies a type
\* is handled as s3, so it is not answered "missing type", and with an
\* acceptable bucket-id the s3 restore is requested.
C4_RestoreDefaultsToS3 ==
    (req.route = "restore" /\ NoTypeSupplied(req)) =>
        /\ ~(resp.status = 400 /\ resp.body["error"] = MissingTypeMessage)
        /\ BucketIdAccepted(params["bucket_id"]) =>
              (Len(http) = 1 /\ http[1].endpoint = <<"/restore/aws/s3">>)

\* C4 amended: the default does not apply to /restore; a /restore request
\* (GET or POST) for which no source supplies a type is answered 400
\* "Missing required parameter: type", and the backend is not called.
C4_RestoreRequiresType ==
    (req.route = "restore" /\ NoTypeSupplied(req)) =>
        /\ resp.status = 400
        /\ resp.body["error"] = MissingTypeMessage
        /\ http = <<>>

C4_Witness ==
    /\ req.route = "restore"
    /\ req.method = "POST"
    /\ NoTypeSupplied(req)
    /\ ~Falsy(params["bucket_name"])
    /\ resp.status = 400

IsInvalidTypeError(answer) ==
    /\ answer.status = 400
    /\ answer.body["error"][1] = "Invalid "

\* C5: on /inventory and /restore a type that is neither s3 nor ec2 is
\* answered 400 without any backend call, and a type that is s3 or ec2 is
\* never answered "invalid type".
C5_InvalidTypeRejected ==
    (req.route \in Routes) =>
        /\ EffectiveType \notin ValidTypes => (resp.status = 400 /\ http = <<>>)
        /\ EffectiveType \in ValidTypes => ~IsInvalidTypeError(resp)

C5_Witness ==
    /\ req.route = "inventory"
    /\ EffectiveType = Foo
    /\ IsInvalidTypeError(resp)
    /\ http = <<>>

\* C6: an inventory request of type s3 without an account is answered 400
\* with an error naming the account parameter (by the slash command: with
\* an ephemeral message naming it), and the backend is not called.
C6_MissingAccountRejected ==
    (req.route \in {"inventory", "/inventory"} /\ EffectiveType = S3
        /\ Falsy(params["account"])) =>
        /\ http = <<>>
        /\ IF req.route = "inventory"
           THEN resp.status = 400 /\ Mentions(resp.body["error"], "account")
           ELSE SaidEphemeral /\ Mentions(slack[1].payload["text"], "account")

C6_Witness ==
    /\ req.route = "inventory"
    /\ req.method = "GET"
    /\ params["type"] = S3
    /\ Falsy(params["account"])
    /\ resp.status = 400

\* A caller that is not the chat platform: none of the platform's fields
\* in a form body.
NonChatCaller(r) ==
    r.method = "GET" \/ \A k \in {"token", "team_id", "command"} : Falsy(Get(r.form, k))

\* C7: /inventory of type ec2 without an account, from a caller that is not
\* the chat platform, is never rejected: the ec2 listing is requested and,
\* when the backend answers, the answer is 200 with the backend's payload
\* as it came.
C7_Ec2PassThrough ==
    (req.route = "inventory" /\ NonChatCaller(req) /\ EffectiveType = EC2
        /\ Falsy(params["account"])) =>
        /\ resp.status # 400
        /\ Len(http) = 1
        /\ http[1].endpoint = Ec2Endpoint
        /\ http[1].answer.kind = "ok" =>
              resp = [status |-> 200, body |-> http[1].answer.payload]

C7_Witness ==
    /\ req.route = "inventory"
    /\ NonChatCaller(req)
    /\ EffectiveType = EC2
    /\ Falsy(params["account"])
    /\ resp.status = 200
    /\ resp.body = Listing(<<AssetA>>)

\* What int() accepts: a JSON number, or a string that reads as an integer.
IntAccepts(v) == IsNumber(v) \/ IntParses(v)

BucketIdMessage == <<"bucket-id", " must be a numeric value (string format)">>

NotNumeric(v) == ~Falsy(v) /\ ~IntAccepts(v)

FailsValidation ==
    \/ /\ req.route \in {"inventory", "/inventory"}
       /\ \/ EffectiveType \notin ValidTypes
          \/ EffectiveType = S3 /\ Falsy(params["account"])
    \/ /\ req.route \in {"restore", "/restore"}
       /\ \/ EffectiveType \notin ValidTypes
          \/ NotNumeric(params["bucket_id"])

\* C9: in the two routes and the two slash-command handlers a request that
\* fails validation (type outside s3 and ec2, s3 inventory without account,
\* bucket-id that is not numeric) causes no HTTP call to the backend API.
C9_NoCallAfterFailedValidation == FailsValidation => http = <<>>

\* The field a rejected request is rejected for, and the value it gave.
OffendingField ==
    IF EffectiveType \notin ValidTypes THEN "type"
    ELSE IF req.route = "inventory" THEN "account"
    ELSE "bucket-id"

OffendingValue ==
    CASE OffendingField = "type" -> params["type"]
      [] OffendingField = "account" -> params["account"]
      [] OTHER -> params["bucket_id"]

\* The value stands in the message.
Contains(message, value) ==
    \E i \in 1..(Len(message) - Len(value) + 1) :
        SubSeq(message, i, i + Len(value) - 1) = value

NamesOffendingField == Mentions(resp.body["error"], OffendingField)

\* The value is in the error object (in its message, or under a key of its
\* own); a parameter that is missing has no value to show.
ShowsOffendingValue ==
    \/ Falsy(OffendingValue)
    \/ Contains(resp.body["error"], OffendingValue)
    \/ /\ "bucket_id_received" \in DOMAIN resp.body
       /\ resp.body["bucket_id_received"] = OffendingValue

\* An example of correct usage, or at least the list of accepted values.
ShowsUsage ==
    \/ "example" \in DOMAIN resp.body
    \/ Mentions(resp.body["error"], ". Accepted values: s3, ec2")

\* C10 as claimed: every validation failure on /inventory and /restore
\* gives an error object with the name of the offending field, the
\* offending value and an example of correct usage, and no partial result.
C10_FullErrorObject ==
    (req.route \in Routes /\ resp.status = 400) =>
        /\ NamesOffendingField
        /\ ShowsOffendingValue
        /\ ShowsUsage
        /\ http = <<>>

\* C10 amended: every validation failure on /inventory and /restore gives
\* an error object whose message names the offending field and that holds
\* the offending value when one was given, and no partial result; correct
\* usage is shown for a missing account and an invalid type, not for a
\* missing type on /restore nor for an invalid bucket-id.
C10_ErrorObject ==
    (req.route \in Routes /\ resp.status = 400) =>
        /\ NamesOffendingField
        /\ ShowsOffendingValue
        /\ http = <<>>
        /\ ShowsUsage <=> \/ OffendingField = "account"
                          \/ OffendingField = "type" /\ ~Falsy(EffectiveType)

C10_Witness ==
    /\ req.route = "restore"
    /\ resp.status = 400
    /\ OffendingField = "bucket-id"
    /\ resp.body["bucket_id_received"] = IdAlt
    /\ ~ShowsUsage

\* The value of the earliest key=value token of a text that assigns the
\* field a value (None when no token does).
FirstAssigned(text, field) ==
    LET parts == TextTokens(text)
        hits == {i \in 1..Len(parts) :
                    /\ HasEq(parts[i])
                    /\ SplitKey(parts[i]) \in TextKeysOf(field)
                    /\ SplitValue(parts[i]) # <<>>}
    IN  IF hits # {}
        THEN SplitValue(parts[CHOOSE i \in hits : \A j \in hits : i <= j])
        ELSE None

\* The field is left to the text: no source read before the text holds it.
LeftToText(r, field) ==
    \/ r.route \in {"/inventory", "/restore"}
    \/ /\ r.route \in Routes
       /\ r.method = "POST"
       /\ Falsy(QueryHolds(r, field))
       /\ Falsy(JsonHolds(r, field))
       /\ Falsy(HeldBy(r.form, field))

\* C11: wherever a text is parsed (the text field of POST /inventory and
\* POST /restore, the /inventory and /restore slash commands) the first
\* assignment to a key wins: a field left to the text gets the value of the
\* earliest key=value token that assigns it one, whatever later tokens say.
C11_FirstAssignmentWins ==
    (req # Idle) =>
        \A field \in FieldsOf(req.route) :
            LET first == FirstAssigned(DictGet(req.form, "text", <<>>), field)
            IN  (LeftToText(req, field) /\ ~Falsy(first)) => params[field] = first

\* The type a text gives under the grammar of the claim: that of its
\* earliest token that is either type=value or, bare, exactly s3 or ec2
\* (None when it has no such token).
ShorthandType(text) ==
    LET parts == TextTokens(text)
        hits == {i \in 1..Len(parts) :
                    IF HasEq(parts[i])
                    THEN SplitKey(parts[i]) = KeyType /\ SplitValue(parts[i]) # <<>>
                    ELSE parts[i] \in ValidTypes}
        first == CHOOSE i \in hits : \A j \in hits : i <= j
    IN  IF hits = {} THEN None
        ELSE IF HasEq(parts[first]) THEN SplitValue(parts[first]) ELSE parts[first]

\* The number of type=value tokens of a text.
TypeAssignments(text) ==
    Cardinality({i \in 1..Len(TextTokens(text)) :
                    HasEq(TextTokens(text)[i]) /\ SplitKey(TextTokens(text)[i]) = KeyType})

\* C12: wherever a text is parsed, a token without '=' sets the type
\* exactly when no type is assigned yet and the token is s3 or ec2, with or
\* without other tokens beside it; any other token without '=' changes
\* nothing.  (Stated for texts with at most one type= token, so that the
\* order of assignments plays no part.)
C12_BareTypeShorthand ==
    LET text == DictGet(req.form, "text", <<>>)
    IN  (req # Idle /\ LeftToText(req, "type") /\ Falsy(Get(req.args, "text"))
            /\ TypeAssignments(text) <= 1) =>
            Same(params["type"], ShorthandType(text))

\* The answer is the chat rendering of an inventory, and its header text.
ChatRendered ==
    \/ req.route = "inventory" /\ resp.status = 200 /\ IsSlackRequest(req)
    \/ req.route = "/inventory" /\ Len(slack) = 1 /\ "blocks" \in DOMAIN slack[1].payload

ChatHeader ==
    IF req.route = "inventory"
    THEN resp.body["blocks"][1].text
    ELSE slack[1].payload["blocks"][1].text

\* What the header shows after its fixed title.
ShownAccount == SubSeq(ChatHeader, 2, Len(ChatHeader))

\* C13: an account of n characters shown in the chat header is shown as n
\* characters: the mask character everywhere but, when n > 4, in the last
\* four places, which hold the account's last four characters.
C13_AccountMasked ==
    (ChatRendered /\ ~Falsy(params["account"])) =>
        LET s == params["account"]
            n == Len(s)
        IN  /\ Len(ShownAccount) = n
            /\ \A i \in 1..n :
                  ShownAccount[i] = IF n > 4 /\ i > n - 4 THEN s[i] ELSE "*"

C13_Witness ==
    /\ ChatRendered
    /\ params["account"] = AccountForm
    /\ ShownAccount = <<"*", "3", "3", "3", "3">>

\* The blocks of the chat rendering, the assets the backend listed for it,
\* and the value of the button rendered for the i-th of them.
RenderedBlocks ==
    IF req.route = "inventory" THEN resp.body["blocks"] ELSE slack[1].payload["blocks"]

ListedAssets ==
    DictGet(DictGet(http[1].answer.payload, "_embedded", EmptyDict), "items", <<>>)

ButtonsRendered ==
    /\ ChatRendered
    /\ EffectiveType = S3
    /\ Len(http) = 1
    /\ http[1].answer.kind = "ok"
    /\ Len(ListedAssets) > 0

ButtonValue(i) == RenderedBlocks[3 * i + 1].elements[1].value

\* The decoder recovers the three fields of the asset.
Recovers(decoded, asset) ==
    /\ decoded.ok
    /\ decoded.id = DictGet(asset, "id", <<>>)
    /\ decoded.bucket_id = DictGet(asset, "bucket_id", <<>>)
    /\ decoded.bucket_name = DictGet(asset, "bucket_name", <<>>)

\* C14: the value of every button of an inventory rendering, decoded as
\* each of the click handlers decodes it, gives the asset id, bucket id and
\* bucket name of the asset the button was rendered for.
C14_ButtonRoundTrip ==
    ButtonsRendered =>
        \A i \in 1..Len(ListedAssets) :
            /\ Recovers(DecodeForModal(ButtonValue(i)), ListedAssets[i])
            /\ Recovers(DecodeAction(ButtonValue(i)), ListedAssets[i])
            /\ Recovers(DecodeViewBucket(ButtonValue(i)), ListedAssets[i])

C14_Witness ==
    /\ ButtonsRendered
    /\ ListedAssets[1] = AssetC
    /\ DecodeAction(ButtonValue(1)).id = <<"a", "\"">>
    /\ DecodeAction(ButtonValue(1)).bucket_name = <<"\\", "n">>

(***************************************************************************)
(* slack_interactive: the order of the acknowledgment and the fetch.       *)
(***************************************************************************)
\* A button interaction: the payload parses and holds an action.
ButtonInteraction ==
    /\ req.route = "interactive"
    /\ HasPayload(req)
    /\ req.form["payload"].parses
    /\ Actions(req) # <<>>

\* The acknowledgment has not been returned yet.
BeforeAck == resp.status = 0

\* The backend calls made by the handler itself, not by its thread.
RequestPathCalls == Len(http) - thread.calls

\* C15: for every button interaction, whatever its action id and trigger
\* id, the handler itself has made no backend call as long as it has not
\* returned the acknowledgment.
C15_NoCallBeforeAck ==
    (ButtonInteraction /\ BeforeAck) => RequestPathCalls = 0

\* C16: under every interleaving of the thread with the handler, the
\* thread has started its fetch only when the acknowledgment has been
\* returned.
C16_FetchAfterAck ==
    (ButtonInteraction /\ thread.calls > 0) => ~BeforeAck

\* What the general decoding makes of the clicked button's value.
Clicked == DecodeAction(ActionValue(req))

Undecodable == ButtonInteraction /\ (~Clicked.ok \/ Falsy(Clicked.id))

ValidAsset == ButtonInteraction /\ Clicked.ok /\ ~Falsy(Clicked.id)

\* The handler has returned and no thread is left running.
AtRest == pc = "done" /\ thread.pc \in {"none", "done"}

IsErrorPost(m) == m.api = "response_url" /\ "text" \in DOMAIN m.payload

\* C17: when the value of the clicked button does not decode, or decodes
\* without a non-empty asset id, no backend call is made, whatever the
\* action id; the answer is HTTP 200, with one error message posted to the
\* response_url when the payload has one and nothing posted otherwise.
C17_UndecodableNoFetch ==
    Undecodable =>
        /\ http = <<>>
        /\ pc = "done" =>
              /\ resp.status = 200
              /\ IF Falsy(ResponseUrl(req)) THEN slack = <<>>
                 ELSE Len(slack) = 1 /\ IsErrorPost(slack[1])

\* C18: whenever the value decodes to a non-empty asset id, with or without
\* a response_url, the interaction does not come to rest before a fetch of
\* that asset's backups has been made and has returned or failed.
C18_FetchAlwaysRuns ==
    (ValidAsset /\ AtRest) =>
        \E i \in 1..Len(http) : http[i].endpoint = BackupsEndpoint(Clicked.id)

\* C19: slack_events, slack_interactive and slack_options answer every
\* request with HTTP 200.
ChatWebhooks == {"slack/events", "interactive", "slack/options"}

C19_WebhooksAnswer200 ==
    (req.route \in ChatWebhooks /\ ~BeforeAck) => resp.status = 200

(***************************************************************************)
(* slack_interactive: a fetch that fails.                                  *)
(***************************************************************************)
ValidWithUrl == ValidAsset /\ ~Falsy(ResponseUrl(req))

\* The fetch of the thread has failed and its except clause is to run.
DeferredFetchFailed ==
    /\ ValidWithUrl
    /\ thread.pc = "fetched"
    /\ http[Len(http)].answer.kind # "ok"

\* The fetch of the view_bucket branch has failed.
ModalFetchFailed ==
    /\ ValidWithUrl
    /\ pc = "fetched"
    /\ http[1].answer.kind # "ok"

ErrorRetrievingPosted ==
    \E i \in 1..Len(slack) :
        /\ IsErrorPost(slack[i])
        /\ slack[i].url = ResponseUrl(req)
        /\ slack[i].payload["text"] = <<"Error retrieving backups: ", "error">>

\* C20: for a button whose value holds an asset id, in a payload with a
\* response_url, the answer is never anything but HTTP 200 and is
\* eventually given; when the deferred fetch fails, the error message is
\* eventually posted to the response_url; and when the fetch of the
\* view_bucket branch fails, the deferred fetch is eventually made.
C20_FailedFetchReported ==
    /\ [](ValidWithUrl => resp.status \in {0, 200})
    /\ (ValidWithUrl /\ BeforeAck) ~> (resp.status = 200)
    /\ DeferredFetchFailed ~> ErrorRetrievingPosted
    /\ ModalFetchFailed ~> (resp.status = 200 /\ thread.calls = 1)

C20_Witness ==
    /\ ValidWithUrl
    /\ resp.status = 200
    /\ thread.pc = "done"
    /\ http[Len(http)].answer.kind # "ok"
    /\ ErrorRetrievingPosted

(***************************************************************************)
(* The calls one request or interaction makes to the backend.              *)
(***************************************************************************)
SameOperation(a, b) == a.method = b.method /\ a.endpoint = b.endpoint

\* C21: while one request or interaction is handled, no call to the
\* backend follows a call that failed, and no backend operation is invoked
\* twice.
C21_NoRetry ==
    /\ \A i \in 1..(Len(http) - 1) : http[i].answer.kind = "ok"
    /\ \A i \in 1..Len(http) :
          \A j \in (i + 1)..Len(http) : ~SameOperation(http[i], http[j])

\* C22: for a button interaction whose payload has no response_url, no
\* message is posted and no view is opened.
C22_NoUrlNothingSurfaced ==
    (ButtonInteraction /\ Falsy(ResponseUrl(req))) => slack = <<>>

(***************************************************************************)
(* update_slack_message: the list of backups it posts.                     *)
(***************************************************************************)
\* The thread has posted the backups it fetched.
BackupsPosted ==
    /\ req.route = "interactive"
    /\ thread.pc = "done"
    /\ http[Len(http)].answer.kind = "ok"
    /\ "blocks" \in DOMAIN slack[1].payload

FetchedBackups ==
    DictGet(DictGet(http[Len(http)].answer.payload, "_embedded", EmptyDict), "items", <<>>)

PostedBlocks == slack[1].payload["blocks"]

SectionTexts == {PostedBlocks[k].text : k \in {k \in 1..Len(PostedBlocks) :
                                                PostedBlocks[k].type = "section"}}

\* The section of one backup record, the summary of the backups left out,
\* and a section that holds a whole listing.
IsRecordOf(text, backup) ==
    /\ Len(text) > 3
    /\ text[3] = ". Backup ID:* "
    /\ SubSeq(text, 4, Len(text)) = backup["id"]

IsMoreSummary(text, n) == text = <<"*... and ", n, " more backups*">>

HoldsListingWith(text, backup) ==
    /\ Len(text) = 2
    /\ text[1] = "*Full API Response:*"
    /\ \E j \in 1..Len(DictGet(DictGet(text[2], "_embedded", EmptyDict), "items", <<>>)) :
          text[2]["_embedded"]["items"][j] = backup

\* The backups of the backend's answer that appear in the posted message.
AppearingBackups ==
    {j \in 1..Len(FetchedBackups) :
        \E text \in SectionTexts :
            IsRecordOf(text, FetchedBackups[j]) \/ HoldsListingWith(text, FetchedBackups[j])}

\* The first min(n, 10) backups have their sections, in the backend's order.
FirstTenInOrder ==
    \A j \in 1..Len(FetchedBackups) :
        j <= 10 => (Len(PostedBlocks) >= 2 + j
                    /\ IsRecordOf(PostedBlocks[2 + j].text, FetchedBackups[j]))

MoreSummaryWhenOver ==
    (\E text \in SectionTexts : IsMoreSummary(text, Len(FetchedBackups) - 10))
        <=> Len(FetchedBackups) > 10

\* C23: of n backups at most 10 appear anywhere in the message posted to
\* the response_url, they are the first min(n, 10) in the backend's order,
\* and a summary of n - 10 more is there exactly when n > 10.
C23_BackupsTruncated ==
    BackupsPosted =>
        /\ Cardinality(AppearingBackups) <= 10
        /\ FirstTenInOrder
        /\ MoreSummaryWhenOver

(***************************************************************************)
(* /inventory and /restore: a backend call that fails.                     *)
(***************************************************************************)
BackendFailed ==
    /\ req.route \in Routes
    /\ Len(http) > 0
    /\ http[Len(http)].answer.kind # "ok"

\* str(e) of the exception _make_request lets out.
UnderlyingMessage ==
    IF http[Len(http)].answer.kind = "http_error"
    THEN <<"Clumio API error: ", "status", " - ", "detail">>
    ELSE <<"Read timed out. (read timeout=30)">>

\* C24: on /inventory and /restore a failure of the backend call, be it a
\* non-2xx answer or a failure of the transport, is answered HTTP 500 with
\* the underlying message in the error, never 200 or 400.
C24_BackendFailureIs500 ==
    BackendFailed =>
        /\ resp.status = 500
        /\ resp.body["error"] =
              (IF req.route = "inventory" THEN <<"Failed to retrieve inventory: ">>
               ELSE <<"Failed to restore: ">>) \o UnderlyingMessage

C24_Witness ==
    /\ BackendFailed
    /\ req.route = "restore"
    /\ http[1].answer.kind = "timeout"
    /\ resp.status = 500

(***************************************************************************)
(* /inventory: the shape of the answer.                                    *)
(***************************************************************************)
\* The keys of a JSON object, or the places of a JSON array, by name.
KeyNames(v) == {ToString(k) : k \in DOMAIN v}

\* The answer is the object the chat platform renders.
ChatShape(v) == KeyNames(v) = {ToString("blocks"), ToString("response_type")}

\* C25 as claimed: every answer of /inventory has the chat shape exactly
\* when the request is a POST whose form holds a non-empty token, team_id
\* or command.
C25_ShapeOfEveryAnswer ==
    (req.route = "inventory" /\ resp.status # 0) =>
        (ChatShape(resp.body) <=> IsSlackRequest(req))

\* C25: an answer of /inventory that carries an inventory (HTTP 200) has
\* the chat shape exactly when the request is a POST whose form holds a
\* non-empty token, team_id or command; an answer that reports an error
\* (400 or 500) never has it.
C25_ShapeByCaller ==
    req.route = "inventory" =>
        /\ resp.status = 200 => (ChatShape(resp.body) <=> IsSlackRequest(req))
        /\ resp.status \in {400, 500} => ~ChatShape(resp.body)

C25_Witness ==
    /\ req.route = "inventory"
    /\ resp.status = 200
    /\ IsSlackRequest(req)
    /\ "team_id" \in DOMAIN req.form
    /\ EffectiveType = EC2
    /\ ChatShape(resp.body)

(***************************************************************************)
(* format_slack_inventory_response: the layout of the blocks.              *)
(***************************************************************************)
IsNoDivider(block) == block.type # "divider"

\* The number of items of the result rendered: of a result that is no list
\* (the raw answer for ec2), none.
RenderedCount == IF EffectiveType = S3 THEN Len(ListedAssets) ELSE 0

BlocksOfType(blocks, type) == {k \in 1..Len(blocks) : blocks[k].type = type}

\* The layout of a list of n >= 1 items.
ItemisedLayout(blocks, n) ==
    /\ Len(blocks) >= 4
    /\ BlocksOfType(blocks, "header") = {1}
    /\ blocks[2].type = "divider"
    /\ blocks[Len(blocks) - 1].type = "divider"
    /\ blocks[Len(blocks)].type = "section"
    /\ blocks[Len(blocks)].text = <<"*Total items:* ", n>>
    /\ LET between == SelectSeq(SubSeq(blocks, 3, Len(blocks) - 2), IsNoDivider)
       IN  /\ Len(between) = 2 * n
           /\ \A i \in 1..n :
                 /\ between[2 * i - 1].type = "section"
                 /\ between[2 * i - 1].text[2] = i
                 /\ between[2 * i].type = "actions"
                 /\ Len(between[2 * i].elements) = 1
                 /\ between[2 * i].elements[1].type = "button"
                 /\ Recovers(DecodeAction(between[2 * i].elements[1].value),
                             ListedAssets[i])
    /\ Cardinality(BlocksOfType(blocks, "actions")) = n

\* The layout of an empty list and of a result that is no list.
PreformattedLayout(blocks) ==
    /\ Len(blocks) = 3
    /\ blocks[1].type = "header"
    /\ blocks[2].type = "divider"
    /\ blocks[3].type = "section"
    /\ blocks[3].text[1] = "<pre>"

\* C26: the chat rendering of n >= 1 items is a header, a divider, for each
\* item in order one section and one actions block with one button whose
\* value encodes the item, a divider and the summary section with the count
\* n; the rendering of an empty list or of a result that is no list is the
\* header, the divider and one preformatted section.
C26_ChatLayout ==
    ChatRendered =>
        IF RenderedCount >= 1
        THEN ItemisedLayout(RenderedBlocks, RenderedCount)
        ELSE PreformattedLayout(RenderedBlocks)

C26_Witness ==
    /\ ChatRendered
    /\ RenderedCount = 2
    /\ ListedAssets[1] # ListedAssets[2]
    /\ ItemisedLayout(RenderedBlocks, 2)

(***************************************************************************)
(* ClumioClient.restore: the body of the call.                             *)
(***************************************************************************)
\* The restore call has been sent for the request.
RestoreSent ==
    /\ req.route \in {"restore", "/restore"}
    /\ Len(http) = 1
    /\ http[1].method = "POST"

BodyFields == {"bucket_name", "bucket_id", "object_key"}

\* The body has a key for exactly the populated parameters, the type is
\* not in it, and the type selects the endpoint.
OnlyPopulatedFields ==
    /\ \A field \in BodyFields : field \in DOMAIN http[1].data <=> ~Falsy(params[field])
    /\ DOMAIN http[1].data \subseteq BodyFields
    /\ http[1].endpoint =
          (IF params["type"] = S3 THEN <<"/restore/aws/s3">> ELSE <<"/restore/aws/ec2">>)
    /\ params["type"] \in ValidTypes

\* C27 as claimed: each key of the body carries the resolved value.
C27_BodyCarriesResolved ==
    RestoreSent =>
        /\ OnlyPopulatedFields
        /\ \A field \in DOMAIN http[1].data : http[1].data[field] = params[field]

\* C27: the body of the restore call has a key for bucket_name, bucket_id
\* or object_key exactly when the resolved parameter is non-empty; the
\* bucket_name and object_key carry the resolved value, the bucket_id
\* carries it as an integer when it is a string of digits and as it is
\* otherwise; the type selects the endpoint and is not in the body.
C27_RestoreBody ==
    RestoreSent =>
        /\ OnlyPopulatedFields
        /\ \A field \in DOMAIN http[1].data :
              http[1].data[field] =
                 IF field = "bucket_id" /\ IsDigit(params[field])
                 THEN IntOfDigits(params[field])
                 ELSE params[field]

C27_Witness ==
    /\ RestoreSent
    /\ params["bucket_id"] = <<"0", "7">>
    /\ http[1].data["bucket_id"] = Number(<<"7">>)
    /\ "object_key" \notin DOMAIN http[1].data
    /\ ~Falsy(params["bucket_name"])
    /\ http[1].data["bucket_name"] = params["bucket_name"]

(***************************************************************************)
(* get_inventory_data: the projection of the s3 listing.                   *)
(***************************************************************************)
\* The answer is the plain s3 inventory.
PlainS3Inventory ==
    /\ req.route = "inventory"
    /\ resp.status = 200
    /\ ~IsSlackRequest(req)
    /\ EffectiveType = S3

\* C28: the s3 inventory is a list as long as the backend's list of items
\* and in its order, each element holding the id, bucket id and bucket
\* name of its item and nothing else, the empty string standing for a
\* field the item lacks; an answer without items gives the empty list.
C28_S3Projection ==
    PlainS3Inventory =>
        /\ Len(resp.body) = Len(ListedAssets)
        /\ \A i \in 1..Len(ListedAssets) :
              /\ DOMAIN resp.body[i] = {"id", "bucket-id", "bucket-name"}
              /\ resp.body[i]["id"] = DictGet(ListedAssets[i], "id", <<>>)
              /\ resp.body[i]["bucket-id"] = DictGet(ListedAssets[i], "bucket_id", <<>>)
              /\ resp.body[i]["bucket-name"] = DictGet(ListedAssets[i], "bucket_name", <<>>)

C28_Witness ==
    /\ PlainS3Inventory
    /\ ListedAssets = <<AssetB, AssetA>>
    /\ resp.body[1]["bucket-name"] = <<>>
    /\ resp.body[2]["bucket-name"] = <<"b", "k">>

(***************************************************************************)
(* /restore: the call that follows the validation.                         *)
(***************************************************************************)
\* The request has passed the validation of the route.
RestoreValidated == req.route = "restore" /\ resp.status \in {200, 500}

\* C30: every /restore request that passes the validation issues exactly
\* one restore call to the backend, whatever the form of its bucket-id, and
\* is answered 500 only when that call failed.
C30_ValidatedRestoreCalls ==
    RestoreValidated =>
        /\ Len(http) = 1
        /\ http[1].method = "POST"
        /\ resp.status = 500 => http[1].answer.kind # "ok"

(***************************************************************************)
(* Interactions in flight at once.                                         *)
(***************************************************************************)
\* The asset and the bucket the button of interaction i names.
OwnItem(i) == DecodeAction(ActionValue(jobs[i].req))

\* A message to the chat platform that lists backups.
ListsBackups(post) == ToString("blocks") \in KeyNames(post.payload)

\* C29: when several button interactions are in flight at once, under
\* every interleaving each fetch goes out for the asset of the interaction
\* that made it, each message goes to the callback URL of that interaction
\* and names its bucket, and the attributes of the client stay as the
\* constructor left them.
C29_Isolated ==
    /\ client = ClumioClient
    /\ \A i \in Clicks :
          jobs[i].req # Idle =>
              /\ \A k \in 1..Len(jobs[i].http) :
                    jobs[i].http[k].endpoint = BackupsEndpoint(OwnItem(i).id)
              /\ \A k \in 1..Len(jobs[i].slack) :
                    /\ jobs[i].slack[k].url = ResponseUrl(jobs[i].req)
                    /\ ListsBackups(jobs[i].slack[k]) =>
                          jobs[i].slack[k].payload["blocks"][1]
                              = Section(<<"*Backup information for: ">>
                                            \o OwnItem(i).bucket_name \o <<"*">>)

\* Two interactions for different assets and callback URLs, interleaved:
\* the thread of the second has fetched and posted while the thread of
\* the first stands between its fetch and its post, and the handler of
\* the second has not yet answered.
C29_Witness ==
    /\ jobs[1].req # Idle
    /\ jobs[2].req # Idle
    /\ OwnItem(1).id # OwnItem(2).id
    /\ ResponseUrl(jobs[1].req) # ResponseUrl(jobs[2].req)
    /\ jobs[1].thread.pc = "fetched"
    /\ jobs[2].thread.pc = "done"
    /\ jobs[2].pc = "started"
    /\ Len(jobs[1].http) = 1
    /\ \E k \in 1..Len(jobs[2].slack) : ListsBackups(jobs[2].slack[k])

====
